---- MODULE Spec2Model ----
(***************************************************************************)
(* Event-graph walker CRDT (crdt-eg-walker): causal graph, operation log,  *)
(* replay walk, branch and document facade.                                *)
(*                                                                         *)
(* Conventions.  LVs, seqs and array indices are 0-based as in the source; *)
(* a JavaScript array is a TLA+ sequence and At(s, i) reads s[i].          *)
(* Agent ids are the naturals 1, 2, 3 standing for the strings "A", "B",   *)
(* "C": their numeric order is the lexicographic order of the names.       *)
(* A function that throws returns a value whose err field is TRUE (or the  *)
(* sentinel the definition names); a caller propagates it.                 *)
(***************************************************************************)
EXTENDS Integers, Sequences, FiniteSets, TLC

\* oplog[p] and branch[p] are the OpLog and the Branch of peer p (together its
\* Document); pc[p] is where the peer's program stands with its branch:
\* "checkout" when the branch is what checkout (or createDocument,
\* openDocument) returned, "edit" when local document edits followed,
\* "merge" once a merge has written it.
VARIABLES oplog, branch, pc

vars == <<oplog, branch, pc>>

\* ----- bounds of the model ------------------------------------------------
\* Peers, each editing under its own agent id.
NPeers == 2
\* Ops authored in a run, over all the peers.
MaxOps == 3
\* Longest ops array a merge may produce.
MaxOpsLen == 4
\* Longest text the peers start from, and longest run a peer types at once.
MaxBase == 2
MaxRun == 3
\* Longest ops array a merge of runs may produce.
MaxRunOpsLen == 9

\* The number of ops of the oplog that is edited in sequence.
MaxLinearOps == 4

\* The length of ops up to which the peers that merge back and forth merge.
MaxMergeOpsLen == 5

\* The number of versions of the causal graph that is built entry by entry.
MaxCGLen == 4
\* Ops of the oplog whose replay is inspected step by step.
MaxReplayOps == 4
\* Items of the order-statistic tree that is built insert by insert.
MaxTreeItems == 5

Peers == 1..NPeers
Agents == 1..NPeers
\* What a peer types: content is opaque to the program, so every op carries a
\* letter of its own, Letters[agent][seq + 1].
Letters == << <<"a", "b", "c", "d", "e">>, <<"p", "q", "r", "s", "t">>,
              <<"u", "v", "w", "x", "y">>, <<"A", "B", "C", "D", "E">> >>
\* Seqs of one agent: a row of Letters has a letter for each.
MaxSeq == Len(Letters[1])

\* ----- arrays -------------------------------------------------------------
At(s, i) == s[i + 1]

InRange(s, i) == i >= 0 /\ i < Len(s)

Slice(s, from, to) == SubSeq(s, from + 1, to)

\* Array.prototype.splice(idx, 0, x); an index past the end appends.
SpliceIn(s, idx, x) ==
  LET i == IF idx > Len(s) THEN Len(s) ELSE idx
  IN SubSeq(s, 1, i) \o <<x>> \o SubSeq(s, i + 1, Len(s))

\* Array.prototype.splice(idx, n); an index past the end removes nothing.
SpliceOut(s, idx, n) ==
  IF idx >= Len(s) THEN s
  ELSE SubSeq(s, 1, idx) \o SubSeq(s, idx + n + 1, Len(s))

\* Let(v, F) is F(v): an intermediate result, computed once and named.
Let(v, F(_)) == F(v)

min2(a, b) == IF a < b THEN a ELSE b
max2(a, b) == IF a > b THEN a ELSE b

\* arr[idx] = x; an index past the end extends the array, the holes read -1
\* (an undefined delete target names no item either).
SetAt(s, idx, x) ==
  [i \in 1..max2(Len(s), idx + 1) |->
     IF i = idx + 1 THEN x ELSE IF i <= Len(s) THEN s[i] ELSE -1]

RECURSIVE InsertSorted(_, _)
InsertSorted(s, x) ==
  IF s = <<>> THEN <<x>>
  ELSE IF x < Head(s) THEN <<x>> \o s
  ELSE <<Head(s)>> \o InsertSorted(Tail(s), x)

RECURSIVE SortAsc(_)
SortAsc(s) == IF s = <<>> THEN <<>> ELSE InsertSorted(SortAsc(Tail(s)), Head(s))

sortVersions(v) == SortAsc(v)

Reverse(s) == [i \in 1..Len(s) |-> s[Len(s) + 1 - i]]

Includes(s, x) == \E i \in 1..Len(s) : s[i] = x

Filter(s, Keep(_)) == SelectSeq(s, Keep)

RECURSIVE SeqMax(_)
SeqMax(s) == IF Len(s) = 1 THEN s[1]
             ELSE LET m == SeqMax(Tail(s)) IN IF Head(s) > m THEN Head(s) ELSE m

\* ----- binary search -------------------------------------------------------
\* cmp[i + 1] is compare(arr[i]); the result is the index found, or
\* -(insertion point) - 1.
RECURSIVE BinarySearchLoop(_, _, _)
BinarySearchLoop(cmp, low, high) ==
  IF low > high THEN (0 - low) - 1
  ELSE LET mid == (low + high) \div 2
           c == At(cmp, mid)
       IN IF c > 0 THEN BinarySearchLoop(cmp, mid + 1, high)
          ELSE IF c < 0 THEN BinarySearchLoop(cmp, low, mid - 1)
          ELSE mid

binarySearch(cmp) == BinarySearchLoop(cmp, 0, Len(cmp) - 1)

\* ----- causal graph: basic operations --------------------------------------
NoClientEntry == [seq |-> -1, seqEnd |-> -1, version |-> -1]
NoCGEntry == [version |-> -1, vEnd |-> -1, agent |-> 0, seq |-> -1, parents |-> <<>>]

createCG == [heads |-> <<>>, entries |-> <<>>,
             agentToVersion |-> [a \in Agents |-> <<>>]]

tryAppendEntriesOk(a, b) ==
  /\ b.version = a.vEnd
  /\ a.agent = b.agent
  /\ a.seq + (a.vEnd - a.version) = b.seq
  /\ Len(b.parents) = 1
  /\ b.parents[1] = a.vEnd - 1

tryAppendClientEntryOk(a, b) ==
  b.seq = a.seqEnd /\ b.version = a.version + (a.seqEnd - a.seq)

\* pushRLEList(cg.entries, entry, tryAppendEntries)
pushRLEListEntries(list, newItem) ==
  IF list # <<>> /\ tryAppendEntriesOk(list[Len(list)], newItem)
  THEN [list EXCEPT ![Len(list)].vEnd = newItem.vEnd]
  ELSE Append(list, newItem)

\* pushRLEList(list, item, tryAppendClientEntry)
pushRLEListClient(list, newItem) ==
  IF list # <<>> /\ tryAppendClientEntryOk(list[Len(list)], newItem)
  THEN [list EXCEPT ![Len(list)].seqEnd = newItem.seqEnd]
  ELSE Append(list, newItem)

\* insertRLEList that always adds at the end of the list.
insertRLEListAtEnd(list, newItem) ==
  [list |-> pushRLEListClient(list, newItem), err |-> FALSE]

\* insertRLEList(list, item, e => e.seq, tryAppendClientEntry); the result is
\* [list, err]: err when the key is found in the list.
insertRLEList(list, newItem) ==
  IF list = <<>> \/ newItem.seq >= list[Len(list)].seq
  THEN [list |-> pushRLEListClient(list, newItem), err |-> FALSE]
  ELSE Let(binarySearch([i \in 1..Len(list) |->
               IF newItem.seq - list[i].seq > 0 THEN 1
               ELSE IF newItem.seq - list[i].seq < 0 THEN -1 ELSE 0]),
           LAMBDA found :
             IF found >= 0 THEN [list |-> list, err |-> TRUE]
             ELSE IF (0 - found) - 1 # 0
                     /\ tryAppendClientEntryOk(At(list, (0 - found) - 2), newItem)
             THEN [list |-> [list EXCEPT ![(0 - found) - 1].seqEnd = newItem.seqEnd],
                   err |-> FALSE]
             ELSE [list |-> SubSeq(list, 1, (0 - found) - 1) \o <<newItem>>
                              \o SubSeq(list, (0 - found), Len(list)),
                   err |-> FALSE])

findClientEntryRaw(cg, agent, seq) ==
  Let(binarySearch([i \in 1..Len(cg.agentToVersion[agent]) |->
          IF seq < cg.agentToVersion[agent][i].seq THEN -1
          ELSE IF seq >= cg.agentToVersion[agent][i].seqEnd THEN 1 ELSE 0]),
      LAMBDA result :
        IF result < 0 THEN NoClientEntry ELSE At(cg.agentToVersion[agent], result))

findClientEntryTrimmed(cg, agent, seq) ==
  Let(findClientEntryRaw(cg, agent, seq),
      LAMBDA clientEntry :
        IF clientEntry = NoClientEntry THEN NoClientEntry
        ELSE IF seq - clientEntry.seq = 0 THEN clientEntry
        ELSE [seq |-> seq, seqEnd |-> clientEntry.seqEnd,
              version |-> clientEntry.version + (seq - clientEntry.seq)])

\* nextLV as the number of entries, not the end of the last one.
nextLVByLength(cg) == Len(cg.entries)

nextLV(cg) ==
  IF cg.entries = <<>> THEN 0 ELSE cg.entries[Len(cg.entries)].vEnd

nextSeqForAgent(cg, agent) ==
  LET entries == cg.agentToVersion[agent]
  IN IF entries = <<>> THEN 0 ELSE entries[Len(entries)].seqEnd

\* advanceFrontier that keeps the parents in the frontier.
advanceFrontierKeepParents(frontier, vLast, parents) ==
  sortVersions(Append(frontier, vLast))

advanceFrontier(frontier, vLast, parents) ==
  LET keep(v) == ~Includes(parents, v)
  IN sortVersions(Append(Filter(frontier, keep), vLast))

hasVersion(cg, agent, seq) == findClientEntryRaw(cg, agent, seq) # NoClientEntry

\* The while loop of add that skips the prefix already known:
\* [known |-> TRUE] when the whole range is known, else the trimmed
\* seqStart and parents.
RECURSIVE addTrim(_, _, _, _, _)
\* addTrim that takes every range for new.
addTrimAllNew(cg, agent, seqStart, seqEnd, parents) ==
  [known |-> FALSE, seqStart |-> seqStart, parents |-> parents]

\* addTrim that keeps the given parents after skipping a known prefix.
RECURSIVE addTrimKeepParents(_, _, _, _, _)
addTrimKeepParents(cg, agent, seqStart, seqEnd, parents) ==
  Let(findClientEntryTrimmed(cg, agent, seqStart),
      LAMBDA existingEntry :
        IF existingEntry = NoClientEntry
        THEN [known |-> FALSE, seqStart |-> seqStart, parents |-> parents]
        ELSE IF existingEntry.seqEnd >= seqEnd
        THEN [known |-> TRUE, seqStart |-> seqStart, parents |-> parents]
        ELSE addTrimKeepParents(cg, agent, existingEntry.seqEnd, seqEnd,
                                parents))

addTrim(cg, agent, seqStart, seqEnd, parents) ==
  Let(findClientEntryTrimmed(cg, agent, seqStart),
      LAMBDA existingEntry :
        IF existingEntry = NoClientEntry
        THEN [known |-> FALSE, seqStart |-> seqStart, parents |-> parents]
        ELSE IF existingEntry.seqEnd >= seqEnd
        THEN [known |-> TRUE, seqStart |-> seqStart, parents |-> parents]
        ELSE addTrim(cg, agent, existingEntry.seqEnd, seqEnd,
                     <<existingEntry.version
                         + (existingEntry.seqEnd - existingEntry.seq) - 1>>))

\* add returns [cg, entry, err]; entry = NoCGEntry is the source's null.
add(cg, agent, seqStart, seqEnd, parents) ==
  Let(nextLV(cg), LAMBDA version :
  Let(addTrim(cg, agent, seqStart, seqEnd, parents), LAMBDA t :
    IF t.known THEN [cg |-> cg, entry |-> NoCGEntry, err |-> FALSE]
    ELSE
  Let([version |-> version, vEnd |-> version + (seqEnd - t.seqStart),
       agent |-> agent, seq |-> t.seqStart, parents |-> t.parents], LAMBDA entry :
  Let(insertRLEList(cg.agentToVersion[agent],
        [seq |-> t.seqStart, seqEnd |-> seqEnd, version |-> version]), LAMBDA ins :
    IF ins.err
    THEN [cg |-> [cg EXCEPT !.entries = pushRLEListEntries(@, entry)],
          entry |-> NoCGEntry, err |-> TRUE]
    ELSE [cg |-> [heads |-> advanceFrontier(cg.heads, entry.vEnd - 1, t.parents),
                  entries |-> pushRLEListEntries(cg.entries, entry),
                  agentToVersion |->
                    [cg.agentToVersion EXCEPT ![agent] = ins.list]],
          entry |-> entry, err |-> FALSE]))))

findEntryContainingRaw(cg, v) ==
  Let(binarySearch([i \in 1..Len(cg.entries) |->
          IF v < cg.entries[i].version THEN -1
          ELSE IF v >= cg.entries[i].vEnd THEN 1 ELSE 0]),
      LAMBDA idx : IF idx < 0 THEN NoCGEntry ELSE At(cg.entries, idx))

knownLV(cg, v) == findEntryContainingRaw(cg, v) # NoCGEntry

\* RawVersion [agent, seq] is the pair <<agent, seq>>; NoRaw stands for the
\* throw of findEntryContainingRaw on an unknown LV.
NoRaw == <<0, -1>>

lvToRaw(cg, v) ==
  Let(findEntryContainingRaw(cg, v),
      LAMBDA e : IF e = NoCGEntry THEN NoRaw
                 ELSE <<e.agent, e.seq + (v - e.version)>>)

lvToRawList(cg, parents) == [i \in 1..Len(parents) |-> lvToRaw(cg, parents[i])]

\* rawToLV: -1 stands for the throw on an unknown id.
rawToLV(cg, agent, seq) ==
  IF agent \notin Agents THEN -1
  ELSE findClientEntryTrimmed(cg, agent, seq).version

rawToLVList(cg, parents) ==
  [i \in 1..Len(parents) |-> rawToLV(cg, parents[i][1], parents[i][2])]

\* addRaw with rawParents given; err when a parent is unknown.
addRaw(cg, id, len, rawParents) ==
  Let(rawToLVList(cg, rawParents),
      LAMBDA parents :
        IF \E i \in 1..Len(parents) : parents[i] < 0
        THEN [cg |-> cg, entry |-> NoCGEntry, err |-> TRUE]
        ELSE add(cg, id[1], id[2], id[2] + len, parents))

rawVersionCmp(r1, r2) ==
  IF r1[1] < r2[1] THEN -1 ELSE IF r1[1] > r2[1] THEN 1 ELSE r1[2] - r2[2]

\* lvCmp with the LVs themselves compared instead of their identities.
lvCmpByLV(cg, a, b) == a - b

lvCmp(cg, a, b) == rawVersionCmp(lvToRaw(cg, a), lvToRaw(cg, b))

lvEq(a, b) == Len(a) = Len(b) /\ \A i \in 1..Len(a) : b[i] = a[i]

\* ----- priority queue (binary heap with a comparator) ----------------------
\* A max-heap of numbers is the sequence of its elements in the order pop
\* returns them (descending).
RECURSIVE pqPush(_, _)
pqPush(q, x) ==
  IF q = <<>> THEN <<x>>
  ELSE IF x >= Head(q) THEN <<x>> \o q
  ELSE <<Head(q)>> \o pqPush(Tail(q), x)

pqPeek(q) == Head(q)
pqPop(q) == Tail(q)

\* ----- causal graph: diff ---------------------------------------------------
DiffFlagOnlyA == 0
DiffFlagOnlyB == 1
DiffFlagShared == 2

\* pushReversedRLE that never extends the last range.
pushReversedRLEApart(list, start, end) ==
  Append(list, <<start, end>>)

pushReversedRLE(list, start, end) ==
  IF list # <<>> /\ list[Len(list)][1] = end
  THEN [list EXCEPT ![Len(list)] = <<start, @[2]>>]
  ELSE Append(list, <<start, end>>)

\* The state of diff's loop: flags (a function on the LVs seen), queue,
\* numShared and the two reversed range lists.
diffEnq(st, v, flag) ==
  IF v \notin DOMAIN st.flags
  THEN [st EXCEPT !.queue = pqPush(@, v),
                  !.flags = (v :> flag) @@ @,
                  !.numShared = IF flag = DiffFlagShared THEN @ + 1 ELSE @]
  ELSE IF flag # st.flags[v] /\ st.flags[v] # DiffFlagShared
  THEN [st EXCEPT !.flags = [@ EXCEPT ![v] = DiffFlagShared],
                  !.numShared = @ + 1]
  ELSE st

RECURSIVE diffEnqAll(_, _, _)
diffEnqAll(st, vs, flag) ==
  IF vs = <<>> THEN st ELSE diffEnqAll(diffEnq(st, Head(vs), flag), Tail(vs), flag)

diffMarkRun(st, start, endInclusive, flag) ==
  IF flag = DiffFlagShared THEN st
  ELSE IF flag = DiffFlagOnlyA
  THEN [st EXCEPT !.aOnly = pushReversedRLE(@, start, endInclusive + 1)]
  ELSE [st EXCEPT !.bOnly = pushReversedRLE(@, start, endInclusive + 1)]

\* The inner loop that drains the queue items lying in entry e; the result
\* carries the current v and flag.
RECURSIVE diffDrain(_, _, _, _)
diffDrain(st, e, v, flag) ==
  IF st.queue # <<>> /\ pqPeek(st.queue) >= e.version
  THEN LET v2 == pqPeek(st.queue)
           flag2 == st.flags[v2]
           st1 == [st EXCEPT !.queue = pqPop(@),
                     !.numShared = IF flag2 = DiffFlagShared THEN @ - 1 ELSE @]
       IN IF flag2 # flag
          THEN diffDrain(diffMarkRun(st1, v2 + 1, v, flag), e, v2, DiffFlagShared)
          ELSE diffDrain(st1, e, v, flag)
  ELSE [st |-> st, v |-> v, flag |-> flag]

RECURSIVE diffLoop(_, _)
diffLoop(cg, st) ==
  IF st.err \/ ~(Len(st.queue) > st.numShared) THEN st
  ELSE LET v == pqPeek(st.queue)
           flag == st.flags[pqPeek(st.queue)]
           st1 == [st EXCEPT !.queue = pqPop(@),
                     !.numShared = IF st.flags[pqPeek(st.queue)] = DiffFlagShared
                                   THEN @ - 1 ELSE @]
       IN Let(findEntryContainingRaw(cg, v), LAMBDA e :
            IF e = NoCGEntry THEN [st1 EXCEPT !.err = TRUE]
            ELSE Let(diffDrain(st1, e, v, flag), LAMBDA d :
                   diffLoop(cg, diffEnqAll(diffMarkRun(d.st, e.version, d.v, d.flag),
                                           e.parents, d.flag))))

\* diff returns [aOnly, bOnly, err]; err is the throw of findEntryContainingRaw.
diff(cg, a, b) ==
  IF lvEq(a, b) THEN [aOnly |-> <<>>, bOnly |-> <<>>, err |-> FALSE]
  ELSE Let(diffLoop(cg, diffEnqAll(diffEnqAll(
               [flags |-> <<>>, queue |-> <<>>, numShared |-> 0,
                aOnly |-> <<>>, bOnly |-> <<>>, err |-> FALSE],
               a, DiffFlagOnlyA), b, DiffFlagOnlyB)),
           LAMBDA st : [aOnly |-> Reverse(st.aOnly), bOnly |-> Reverse(st.bOnly),
                        err |-> st.err])

\* isFastForward with the throw of diff told apart: "true", "false" or "err".
isFastForward3(cg, from, to) ==
  IF lvEq(from, to) THEN "true"
  ELSE Let(diff(cg, from, to),
           LAMBDA d : IF d.err THEN "err"
                      ELSE IF d.aOnly = <<>> THEN "true" ELSE "false")

isFastForward(cg, from, to) == isFastForward3(cg, from, to) = "true"

\* ----- causal graph: versionContainsLV --------------------------------------
RECURSIVE vclDrain(_, _)
vclDrain(queue, e) ==
  IF queue # <<>> /\ pqPeek(queue) >= e.version THEN vclDrain(pqPop(queue), e)
  ELSE queue

RECURSIVE vclPushParents(_, _, _)
vclPushParents(queue, ps, target) ==
  IF ps = <<>> THEN queue
  ELSE vclPushParents(IF Head(ps) > target THEN pqPush(queue, Head(ps)) ELSE queue,
                      Tail(ps), target)

\* The loop of versionContainsLV; "err" stands for the throw on an unknown LV.
RECURSIVE vclLoop(_, _, _)
\* The loop without the test whether the entry of v reaches down to target.
vclLoopPastEntry(cg, queue, target) ==
  IF queue = <<>> THEN "false"
  ELSE IF pqPeek(queue) = target THEN "true"
  ELSE Let(findEntryContainingRaw(cg, pqPeek(queue)), LAMBDA e :
         IF e = NoCGEntry THEN "err"
         ELSE IF Includes(e.parents, target) THEN "true"
         ELSE vclLoop(cg, vclPushParents(vclDrain(pqPop(queue), e), e.parents, target),
                      target))

vclLoop(cg, queue, target) ==
  IF queue = <<>> THEN "false"
  ELSE IF pqPeek(queue) = target THEN "true"
  ELSE Let(findEntryContainingRaw(cg, pqPeek(queue)), LAMBDA e :
         IF e = NoCGEntry THEN "err"
         ELSE IF e.version <= target THEN "true"
         ELSE IF Includes(e.parents, target) THEN "true"
         ELSE vclLoop(cg, vclPushParents(vclDrain(pqPop(queue), e), e.parents, target),
                      target))

versionContainsLV3(cg, frontier, target) ==
  IF Includes(frontier, target) THEN "true"
  ELSE vclLoop(cg, vclPushParents(<<>>, frontier, target), target)

versionContainsLV(cg, frontier, target) ==
  versionContainsLV3(cg, frontier, target) = "true"

\* ----- causal graph: findDominators ------------------------------------------
\* The queue holds 2 * v for an input and 2 * p + 1 for a parent.  The state
\* carries the dominators in callback order.
RECURSIVE fdDrain(_, _)
\* The loop that leaves the queue items of the entry in the queue.
fdDrainNothing(st, e) == st

fdDrain(st, e) ==
  IF st.queue # <<>> /\ pqPeek(st.queue) >= e.version * 2
  THEN LET v2Enc == pqPeek(st.queue)
       IN fdDrain([st EXCEPT !.queue = pqPop(@),
                     !.inputsRemaining = IF v2Enc % 2 = 0 THEN @ - 1 ELSE @], e)
  ELSE st

RECURSIVE fdPushAll(_, _)
fdPushAll(queue, encs) ==
  IF encs = <<>> THEN queue ELSE fdPushAll(pqPush(queue, Head(encs)), Tail(encs))

RECURSIVE fdLoop(_, _)
fdLoop(cg, st) ==
  IF st.err \/ ~(Len(st.queue) > 0 /\ st.inputsRemaining > 0) THEN st
  ELSE LET vEnc == pqPeek(st.queue)
           isInput == pqPeek(st.queue) % 2 = 0
           v == pqPeek(st.queue) \div 2
           st1 == [st EXCEPT !.queue = pqPop(@),
                     !.result = IF pqPeek(st.queue) % 2 = 0
                                THEN Append(@, pqPeek(st.queue) \div 2) ELSE @,
                     !.inputsRemaining = IF pqPeek(st.queue) % 2 = 0 THEN @ - 1 ELSE @]
       IN Let(findEntryContainingRaw(cg, v), LAMBDA e :
            IF e = NoCGEntry THEN [st1 EXCEPT !.err = TRUE]
            ELSE fdLoop(cg, [fdDrain(st1, e) EXCEPT !.queue =
                   fdPushAll(@, [i \in 1..Len(e.parents) |-> e.parents[i] * 2 + 1])]))

\* findDominators2 with the callback of findDominators: [result, err], result
\* being the versions called back with isDominator = true, in call order.
findDominators2(cg, versions) ==
  IF Len(versions) = 0 THEN [result |-> <<>>, err |-> FALSE]
  ELSE IF Len(versions) = 1 THEN [result |-> <<versions[1]>>, err |-> FALSE]
  ELSE IF Len(versions) = 2
  THEN IF versions[1] = versions[2] THEN [result |-> <<versions[1]>>, err |-> FALSE]
       ELSE Let(versionContainsLV3(cg, <<max2(versions[1], versions[2])>>,
                                   min2(versions[1], versions[2])),
                LAMBDA c :
                  [result |-> IF c = "false"
                              THEN <<max2(versions[1], versions[2]),
                                     min2(versions[1], versions[2])>>
                              ELSE <<max2(versions[1], versions[2])>>,
                   err |-> c = "err"])
  ELSE Let(fdLoop(cg, [queue |-> fdPushAll(<<>>,
                         [i \in 1..Len(versions) |-> versions[i] * 2]),
                       inputsRemaining |-> Len(versions),
                       result |-> <<>>, err |-> FALSE]),
           LAMBDA st : [result |-> st.result, err |-> st.err])

findDominatorsR(cg, versions) ==
  IF Len(versions) <= 1 THEN [result |-> versions, err |-> FALSE]
  ELSE Let(findDominators2(cg, versions),
           LAMBDA r : [result |-> Reverse(r.result), err |-> r.err])

findDominators(cg, versions) == findDominatorsR(cg, versions).result

\* ----- causal graph: findConflicting -----------------------------------------
\* A TimePoint is [v, flag], v descending.  cmpTimePoint is the comparator of
\* the queue; the queue is the sequence of its elements in pop order.
RECURSIVE cmpTimePointFrom(_, _, _)
cmpTimePointFrom(a, b, i) ==
  IF i > Len(a.v)
  THEN IF Len(a.v) < Len(b.v) THEN 1 ELSE a.flag - b.flag
  ELSE IF Len(b.v) < i THEN -1
  ELSE IF b.v[i] - a.v[i] # 0 THEN b.v[i] - a.v[i]
  ELSE cmpTimePointFrom(a, b, i + 1)

cmpTimePoint(a, b) == cmpTimePointFrom(a, b, 1)

RECURSIVE tpPush(_, _)
tpPush(q, x) ==
  IF q = <<>> THEN <<x>>
  ELSE IF cmpTimePoint(x, Head(q)) <= 0 THEN <<x>> \o q
  ELSE <<Head(q)>> \o tpPush(Tail(q), x)

pointFromVersions(v, flag) ==
  [v |-> IF Len(v) <= 1 THEN v ELSE Reverse(SortAsc(v)), flag |-> flag]

\* queue.push({v: [v[i]], flag}) for i = 1 .. v.length - 1
RECURSIVE tpPushRest(_, _, _, _)
tpPushRest(q, v, i, flag) ==
  IF i >= Len(v) THEN q
  ELSE tpPushRest(tpPush(q, [v |-> <<At(v, i)>>, flag |-> flag]), v, i + 1, flag)

\* The loop that removes the queue entries equal to v.
RECURSIVE fcDedupe(_, _, _)
fcDedupe(queue, v, flag) ==
  IF queue # <<>> /\ lvEq(v, Head(queue).v)
  THEN fcDedupe(Tail(queue), v, IF Head(queue).flag # flag THEN DiffFlagShared ELSE flag)
  ELSE [queue |-> queue, flag |-> flag]

\* The inner loop that consumes the other changes of the transaction.
\* st is [queue, visits, done, result, err]; the result carries st, end, flag.
RECURSIVE fcConsume(_, _, _, _)
\* The inner loop that keeps its flag when it meets a queue entry of the
\* other flag.
fcConsumeKeepFlag(st, txn, end, flag) ==
  IF st.queue = <<>>
  THEN [st EXCEPT !.done = TRUE, !.result = <<end - 1>>]
  ELSE LET peek == Head(st.queue)
       IN IF Len(peek.v) >= 1 /\ peek.v[1] >= txn.version
          THEN LET peekLast == peek.v[1]
                   cut == peekLast + 1 < end
                   st1 == [st EXCEPT
                             !.queue = tpPushRest(Tail(@), peek.v, 1, peek.flag),
                             !.visits = IF cut
                                        THEN Append(@, [range |-> <<peekLast + 1, end>>,
                                                        flag |-> flag])
                                        ELSE @]
               IN fcConsume(st1, txn, IF cut THEN peekLast + 1 ELSE end, flag)
          ELSE [st EXCEPT
                  !.visits = Append(@, [range |-> <<txn.version, end>>, flag |-> flag]),
                  !.queue = tpPush(@, pointFromVersions(txn.parents, flag))]

fcConsume(st, txn, end, flag) ==
  IF st.queue = <<>>
  THEN [st EXCEPT !.done = TRUE, !.result = <<end - 1>>]
  ELSE LET peek == Head(st.queue)
       IN IF Len(peek.v) >= 1 /\ peek.v[1] >= txn.version
          THEN LET peekLast == peek.v[1]
                   cut == peekLast + 1 < end
                   st1 == [st EXCEPT
                             !.queue = tpPushRest(Tail(@), peek.v, 1, peek.flag),
                             !.visits = IF cut
                                        THEN Append(@, [range |-> <<peekLast + 1, end>>,
                                                        flag |-> flag])
                                        ELSE @]
               IN fcConsume(st1, txn, IF cut THEN peekLast + 1 ELSE end,
                            IF peek.flag # flag THEN DiffFlagShared ELSE flag)
          ELSE [st EXCEPT
                  !.visits = Append(@, [range |-> <<txn.version, end>>, flag |-> flag]),
                  !.queue = tpPush(@, pointFromVersions(txn.parents, flag))]

RECURSIVE fcLoop(_, _)
fcLoop(cg, st) ==
  IF st.done \/ st.err THEN st
  ELSE IF Len(Head(st.queue).v) = 0 THEN [st EXCEPT !.done = TRUE, !.result = <<>>]
  ELSE Let(fcDedupe(Tail(st.queue), Head(st.queue).v, Head(st.queue).flag), LAMBDA d :
         IF d.queue = <<>>
         THEN [st EXCEPT !.done = TRUE, !.result = Reverse(Head(st.queue).v),
                         !.queue = <<>>]
         ELSE Let(findEntryContainingRaw(cg, Head(st.queue).v[1]), LAMBDA txn :
                IF txn = NoCGEntry THEN [st EXCEPT !.err = TRUE]
                ELSE fcLoop(cg, fcConsume(
                       [st EXCEPT !.queue = tpPushRest(d.queue, Head(st.queue).v, 1,
                                                       d.flag)],
                       txn, Head(st.queue).v[1] + 1, d.flag))))

\* findConflicting returns [result, visits, err]: the common ancestor and the
\* calls of visit in call order.
findConflicting(cg, a, b) ==
  Let(fcLoop(cg, [queue |-> tpPush(tpPush(<<>>,
                               pointFromVersions(a, DiffFlagOnlyA)),
                               pointFromVersions(b, DiffFlagOnlyB)),
                  visits |-> <<>>, done |-> FALSE, result |-> <<>>,
                  err |-> FALSE]),
      LAMBDA st : [result |-> st.result, visits |-> st.visits, err |-> st.err])

\* ----- causal graph: serialization ---------------------------------------------
\* A PartialSerializedCGEntry is [agent, seq, len, parents], parents a list
\* of RawVersions.
RECURSIVE serializeRange(_, _, _)
\* serializeRange that gives the first version of an entry no parents.
serializeRangeRootParents(cg, start, end) ==
  IF start = end THEN <<>>
  ELSE Let(findEntryContainingRaw(cg, start), LAMBDA e :
         <<[agent |-> e.agent, seq |-> e.seq + (start - e.version),
            len |-> min2(end, e.vEnd) - start,
            parents |-> IF start - e.version = 0 THEN <<>>
                        ELSE << <<e.agent, e.seq + (start - e.version) - 1>> >>]>>
           \o serializeRange(cg, min2(end, e.vEnd), end))

serializeRange(cg, start, end) ==
  IF start = end THEN <<>>
  ELSE Let(findEntryContainingRaw(cg, start), LAMBDA e :
         <<[agent |-> e.agent, seq |-> e.seq + (start - e.version),
            len |-> min2(end, e.vEnd) - start,
            parents |-> IF start - e.version = 0 THEN lvToRawList(cg, e.parents)
                        ELSE << <<e.agent, e.seq + (start - e.version) - 1>> >>]>>
           \o serializeRange(cg, min2(end, e.vEnd), end))

RECURSIVE serializeDiff(_, _)
serializeDiff(cg, ranges) ==
  IF ranges = <<>> THEN <<>>
  ELSE serializeRange(cg, Head(ranges)[1], Head(ranges)[2])
         \o serializeDiff(cg, Tail(ranges))

\* serializeDiff throws when an LV it converts is unknown to cg.
serializeThrows(data) ==
  \E i \in 1..Len(data) :
     \/ data[i].agent \notin Agents
     \/ \E j \in 1..Len(data[i].parents) : data[i].parents[j] = NoRaw

\* The loop of mergePartialVersions: [cg, err].
RECURSIVE mpvLoop(_, _)
\* The loop with every entry added without parents.
mpvLoopNoParents(cg, data) ==
  IF data = <<>> THEN [cg |-> cg, err |-> FALSE]
  ELSE Let(addRaw(cg, <<Head(data).agent, Head(data).seq>>, Head(data).len, <<>>),
           LAMBDA r : IF r.err THEN [cg |-> r.cg, err |-> TRUE]
                      ELSE mpvLoop(r.cg, Tail(data)))

mpvLoop(cg, data) ==
  IF data = <<>> THEN [cg |-> cg, err |-> FALSE]
  ELSE Let(addRaw(cg, <<Head(data).agent, Head(data).seq>>, Head(data).len,
                  Head(data).parents),
           LAMBDA r : IF r.err THEN [cg |-> r.cg, err |-> TRUE]
                      ELSE mpvLoop(r.cg, Tail(data)))

\* mergePartialVersions returns [cg, range, err].
mergePartialVersions(cg, data) ==
  Let(mpvLoop(cg, data),
      LAMBDA r : [cg |-> r.cg, range |-> <<nextLV(cg), nextLV(r.cg)>>, err |-> r.err])

\* ----- causal graph: version summary ------------------------------------------
pushRLERange(ranges, start, end) ==
  IF ranges # <<>> /\ ranges[Len(ranges)][2] = start
  THEN [ranges EXCEPT ![Len(ranges)] = <<@[1], end>>]
  ELSE Append(ranges, <<start, end>>)

RECURSIVE summarizeAgent(_, _)
summarizeAgent(av, versions) ==
  IF av = <<>> THEN versions
  ELSE summarizeAgent(Tail(av), pushRLERange(versions, Head(av).seq, Head(av).seqEnd))

\* summarizeVersion builds a Map (new Map(), result.set): the function from
\* the agents that have entries to their seq ranges is the Map's content.
summarizeVersion(cg) ==
  [a \in {b \in Agents : cg.agentToVersion[b] # <<>>} |->
     summarizeAgent(cg.agentToVersion[a], <<>>)]

\* "for (const agent in summary)": for...in enumerates the enumerable
\* string-keyed properties of the object.  The summary is the Map built by
\* summarizeVersion, whose entries are not properties: no key is enumerated.
forInKeys(summary) == <<>>

\* "cg.agentToVersion[agent]": agentToVersion is a Map (createCG), read here
\* as a property: undefined, which the sentinel <<"undefined">> stands for.
propertyOf(map, key) == <<"undefined">>

\* eachVersionBetween(cg, vStart, vEnd, visit) with the visitor of
\* intersectWithSummary: the last LV of each entry slice.
eachVersionBetweenLast(cg, vStart, vEnd) ==
  Let(binarySearch([i \in 1..Len(cg.entries) |->
          IF vStart < cg.entries[i].version THEN -1
          ELSE IF vStart >= cg.entries[i].vEnd THEN 1 ELSE 0]),
      LAMBDA idx :
        LET hit(i) == i > idx /\ cg.entries[i].version < vEnd
        IN Let(SelectSeq([i \in 1..Len(cg.entries) |-> i], hit),
               LAMBDA sel : [k \in 1..Len(sel) |->
                               min2(vEnd, cg.entries[sel[k]].vEnd) - 1]))

\* The visits of one range of the summary: [agent, startSeq, endSeq, version],
\* version -1 for seqs the graph does not know.
RECURSIVE iwsEntries(_, _, _, _, _)
iwsEntries(agent, clientEntries, idx, startSeq, endSeq) ==
  IF idx >= Len(clientEntries) \/ At(clientEntries, idx).seq >= endSeq
  THEN IF startSeq < endSeq
       THEN <<[agent |-> agent, startSeq |-> startSeq, endSeq |-> endSeq,
               version |-> -1]>>
       ELSE <<>>
  ELSE LET ce == At(clientEntries, idx)
           gap == IF ce.seq > startSeq
                  THEN <<[agent |-> agent, startSeq |-> startSeq, endSeq |-> ce.seq,
                          version |-> -1]>>
                  ELSE <<>>
           s1 == IF ce.seq > startSeq THEN ce.seq ELSE startSeq
           localSeqEnd == min2(ce.seqEnd, endSeq)
       IN gap \o <<[agent |-> agent, startSeq |-> s1, endSeq |-> localSeqEnd,
                    version |-> ce.version + (s1 - ce.seq)]>>
              \o iwsEntries(agent, clientEntries, idx + 1, localSeqEnd, endSeq)

iwsRange(agent, clientEntries, range) ==
  IF clientEntries = <<"undefined">>
  THEN IF range[1] < range[2]
       THEN <<[agent |-> agent, startSeq |-> range[1], endSeq |-> range[2],
               version |-> -1]>>
       ELSE <<>>
  ELSE Let(binarySearch([i \in 1..Len(clientEntries) |->
               IF range[1] < clientEntries[i].seq THEN -1
               ELSE IF range[1] >= clientEntries[i].seqEnd THEN 1 ELSE 0]),
           LAMBDA found :
             iwsEntries(agent, clientEntries,
                        IF found < 0 THEN (0 - found) - 1 ELSE found,
                        range[1], range[2]))

RECURSIVE iwsRanges(_, _, _)
iwsRanges(agent, clientEntries, ranges) ==
  IF ranges = <<>> THEN <<>>
  ELSE iwsRange(agent, clientEntries, Head(ranges))
         \o iwsRanges(agent, clientEntries, Tail(ranges))

\* intersectWithSummaryFull: the calls of visit, in call order.
RECURSIVE iwsAgents(_, _, _)
iwsAgents(cg, summary, keys) ==
  IF keys = <<>> THEN <<>>
  ELSE iwsRanges(Head(keys), propertyOf(cg.agentToVersion, Head(keys)),
                 summary[Head(keys)])
         \o iwsAgents(cg, summary, Tail(keys))

intersectWithSummaryFull(cg, summary) == iwsAgents(cg, summary, forInKeys(summary))

RECURSIVE iwsVersions(_, _, _)
iwsVersions(cg, visits, versions) ==
  IF visits = <<>> THEN versions
  ELSE LET w == Head(visits)
       IN iwsVersions(cg, Tail(visits),
            IF w.version >= 0
            THEN versions \o eachVersionBetweenLast(cg, w.version,
                                w.version + (w.endSeq - w.startSeq))
            ELSE versions)

\* intersectWithSummary returns [common, remainder]; remainder is the list of
\* unknown visits, <<>> standing for null.
intersectWithSummary(cg, summary, versionsIn) ==
  Let(intersectWithSummaryFull(cg, summary), LAMBDA visits :
    LET unknown(w) == w.version < 0
    IN [common |-> findDominators(cg, iwsVersions(cg, visits, versionsIn)),
        remainder |-> SelectSeq(visits, unknown)])

\* ----- operation log ------------------------------------------------------------
NoContent == "undefined"

createOpLog == [ops |-> <<>>, cg |-> createCG]

insOp(pos, content) == [type |-> "ins", pos |-> pos, content |-> content]
delOp(pos) == [type |-> "del", pos |-> pos, content |-> NoContent]

\* localInsert(oplog, agent, pos, ...content)
localInsert(ol, agent, pos, content) ==
  [ops |-> ol.ops \o [i \in 1..Len(content) |-> insOp(pos + i - 1, content[i])],
   cg |-> add(ol.cg, agent, nextSeqForAgent(ol.cg, agent),
              nextSeqForAgent(ol.cg, agent) + Len(content), ol.cg.heads).cg]

\* localDelete(oplog, agent, pos, len), len # 0 (len = 0 throws first).
localDelete(ol, agent, pos, len) ==
  [ops |-> ol.ops \o [i \in 1..len |-> delOp(pos)],
   cg |-> add(ol.cg, agent, nextSeqForAgent(ol.cg, agent),
              nextSeqForAgent(ol.cg, agent) + len, ol.cg.heads).cg]

\* pushOp returns [oplog, result]: result is "true", "false" or "throw"; a
\* throw leaves the causal graph as addRaw changed it.
pushOp(ol, id, parents, type, pos, content) ==
  Let(addRaw(ol.cg, id, 1, parents), LAMBDA r :
    IF r.err THEN [oplog |-> [ol EXCEPT !.cg = r.cg], result |-> "throw"]
    ELSE IF r.entry = NoCGEntry THEN [oplog |-> ol, result |-> "false"]
    ELSE IF type = "ins" /\ content = NoContent
    THEN [oplog |-> [ol EXCEPT !.cg = r.cg], result |-> "throw"]
    ELSE IF r.entry.version # Len(ol.ops)
    THEN [oplog |-> [ol EXCEPT !.cg = r.cg], result |-> "throw"]
    ELSE [oplog |-> [ops |-> Append(ol.ops,
                               IF type = "ins" THEN insOp(pos, content)
                               ELSE delOp(pos)),
                     cg |-> r.cg],
          result |-> "true"])

getLatestVersion(ol) == lvToRawList(ol.cg, ol.cg.heads)

\* dest.ops.push(...src.ops.slice(start, end)) for each range
RECURSIVE pushSlices(_, _, _)
pushSlices(ops, srcOps, ranges) ==
  IF ranges = <<>> THEN ops
  ELSE pushSlices(ops \o Slice(srcOps, Head(ranges)[1],
                               min2(Head(ranges)[2], Len(srcOps))),
                  srcOps, Tail(ranges))

\* mergeOplogInto(dest, src): the new value of dest and whether it threw.
mergeOplogInto3(dest, src) ==
  Let(diff(src.cg,
           intersectWithSummary(src.cg, summarizeVersion(dest.cg), <<>>).common,
           src.cg.heads),
      LAMBDA d :
        IF d.err THEN [oplog |-> dest, err |-> TRUE]
        ELSE
  Let(serializeDiff(src.cg, d.bOnly), LAMBDA cgDiff :
        IF serializeThrows(cgDiff) THEN [oplog |-> dest, err |-> TRUE]
        ELSE
  Let(mergePartialVersions(dest.cg, cgDiff), LAMBDA m :
        IF m.err THEN [oplog |-> [ops |-> dest.ops, cg |-> m.cg], err |-> TRUE]
        ELSE [oplog |-> [ops |-> pushSlices(dest.ops, src.ops, d.bOnly),
                         cg |-> m.cg],
              err |-> FALSE])))

mergeOplogInto(dest, src) == mergeOplogInto3(dest, src).oplog

\* ----- edit context -----------------------------------------------------------------
NYI == 0
INS == 1
DEL == 2

\* The delta up to which findByCurPos scans forward from the cursor hint.
HintMaxDelta == 4

NoHint == [pos |-> -1, idx |-> -1, endPos |-> -1]

\* An Item is [opId, curState, endState, originLeft, rightParent].  The
\* order-statistic tree ctx.items is the sequence of its items in order
\* (toArray); itemsByLV[lv] is the item of the tree whose opId is lv.
\* The replay state is the EditContext with the snapshot it writes:
\* [items, delTargets, curVersion, hint, snapshot, hasSnapshot, err].
createEditContext(opsLength) ==
  [items |-> <<>>, delTargets |-> [i \in 1..opsLength |-> -1],
   curVersion |-> <<>>, hint |-> NoHint,
   snapshot |-> <<>>, hasSnapshot |-> TRUE, err |-> FALSE]

\* SnapshotOps of wrapArray
snapshotInsert(arr, pos, content) == SpliceIn(arr, pos, content)
snapshotDelete(arr, pos) == SpliceOut(arr, pos, 1)

\* OrderStatisticTree.getByIndex is At(items, idx), null when ~InRange.
\* OrderStatisticTree.indexOfItem(itemsByLV[needle]): -1 when there is none.
RECURSIVE indexOfOpFrom(_, _, _)
indexOfOpFrom(items, needle, i) ==
  IF i > Len(items) THEN -1
  ELSE IF items[i].opId = needle THEN i - 1
  ELSE indexOfOpFrom(items, needle, i + 1)

findItemIdx(items, needle) == indexOfOpFrom(items, needle, 1)

\* findByCurPosNode: the cursor just after the targetPos-th item whose
\* curState is Inserted; the end of the tree when there are fewer.
RECURSIVE curPosScan(_, _, _, _, _)
curPosScan(items, idx, curPos, endPos, targetPos) ==
  IF curPos >= targetPos \/ idx >= Len(items) THEN [idx |-> idx, endPos |-> endPos]
  ELSE curPosScan(items, idx + 1,
                  IF At(items, idx).curState = INS THEN curPos + 1 ELSE curPos,
                  IF At(items, idx).endState = INS THEN endPos + 1 ELSE endPos,
                  targetPos)

findByCurPosNode(items, targetPos) ==
  IF targetPos = 0 THEN [idx |-> 0, endPos |-> 0]
  ELSE curPosScan(items, 0, 0, 0, targetPos)

findByCurPosWithHint(items, targetPos, hint) ==
  IF hint # NoHint /\ targetPos >= hint.pos /\ targetPos - hint.pos <= HintMaxDelta
  THEN curPosScan(items, hint.idx, hint.pos, hint.endPos, targetPos)
  ELSE findByCurPosNode(items, targetPos)

findByCurPos(ctx, targetPos) == findByCurPosWithHint(ctx.items, targetPos, ctx.hint)

opTargetLV(ctx, ol, opId) ==
  IF At(ol.ops, opId).type = "del" THEN At(ctx.delTargets, opId) ELSE opId

\* advance1 that sets curState to Deleted instead of counting the delete.
advance1SetDeleted(ctx, ol, opId) ==
  IF ctx.err THEN ctx
  ELSE IF ~InRange(ol.ops, opId) THEN [ctx EXCEPT !.err = TRUE]
  ELSE Let(findItemIdx(ctx.items, opTargetLV(ctx, ol, opId)), LAMBDA i :
         IF i < 0 THEN [ctx EXCEPT !.err = TRUE]
         ELSE IF At(ol.ops, opId).type = "del"
         THEN IF At(ctx.items, i).curState < INS \/ At(ctx.items, i).endState < DEL
              THEN [ctx EXCEPT !.err = TRUE]
              ELSE [ctx EXCEPT !.items[i + 1].curState = DEL]
         ELSE IF At(ctx.items, i).curState # NYI THEN [ctx EXCEPT !.err = TRUE]
              ELSE [ctx EXCEPT !.items[i + 1].curState = INS])

advance1(ctx, ol, opId) ==
  IF ctx.err THEN ctx
  ELSE IF ~InRange(ol.ops, opId) THEN [ctx EXCEPT !.err = TRUE]
  ELSE Let(findItemIdx(ctx.items, opTargetLV(ctx, ol, opId)), LAMBDA i :
         IF i < 0 THEN [ctx EXCEPT !.err = TRUE]
         ELSE IF At(ol.ops, opId).type = "del"
         THEN IF At(ctx.items, i).curState < INS \/ At(ctx.items, i).endState < DEL
              THEN [ctx EXCEPT !.err = TRUE]
              ELSE [ctx EXCEPT !.items[i + 1].curState = @ + 1]
         ELSE IF At(ctx.items, i).curState # NYI THEN [ctx EXCEPT !.err = TRUE]
              ELSE [ctx EXCEPT !.items[i + 1].curState = INS])

\* retreat1 that steps an insert back without testing its state.
retreat1Unchecked(ctx, ol, opId) ==
  IF ctx.err THEN ctx
  ELSE IF ~InRange(ol.ops, opId) THEN [ctx EXCEPT !.err = TRUE]
  ELSE Let(findItemIdx(ctx.items, opTargetLV(ctx, ol, opId)), LAMBDA i :
         IF i < 0 THEN [ctx EXCEPT !.err = TRUE]
         ELSE IF At(ol.ops, opId).type = "del"
         THEN IF At(ctx.items, i).curState < DEL \/ At(ctx.items, i).endState < DEL
              THEN [ctx EXCEPT !.err = TRUE]
              ELSE [ctx EXCEPT !.items[i + 1].curState = @ - 1]
         ELSE [ctx EXCEPT !.items[i + 1].curState = @ - 1])

retreat1(ctx, ol, opId) ==
  IF ctx.err THEN ctx
  ELSE IF ~InRange(ol.ops, opId) THEN [ctx EXCEPT !.err = TRUE]
  ELSE Let(findItemIdx(ctx.items, opTargetLV(ctx, ol, opId)), LAMBDA i :
         IF i < 0 THEN [ctx EXCEPT !.err = TRUE]
         ELSE IF At(ol.ops, opId).type = "del"
         THEN IF At(ctx.items, i).curState < DEL \/ At(ctx.items, i).endState < DEL
              THEN [ctx EXCEPT !.err = TRUE]
              ELSE [ctx EXCEPT !.items[i + 1].curState = @ - 1]
         ELSE IF At(ctx.items, i).curState # INS THEN [ctx EXCEPT !.err = TRUE]
              ELSE [ctx EXCEPT !.items[i + 1].curState = @ - 1])

\* The scan loop of integrate; c is [idx, endPos, scanIdx, scanEndPos,
\* scanning, err].
RECURSIVE integrateScan(_, _, _, _, _, _)
integrateScan(items, cg, newItem, leftIdx, rightIdx, c) ==
  IF c.scanIdx >= Len(items) THEN c
  ELSE LET other == At(items, c.scanIdx)
       IN IF other.curState # NYI THEN c
          ELSE IF other.opId = newItem.rightParent THEN [c EXCEPT !.err = TRUE]
          ELSE
    Let(IF other.originLeft = -1 THEN -1 ELSE findItemIdx(items, other.originLeft),
        LAMBDA oleftIdx :
    Let(IF other.rightParent = -1 THEN Len(items)
        ELSE findItemIdx(items, other.rightParent),
        LAMBDA orightIdx :
      IF other.originLeft # -1 /\ oleftIdx < 0 THEN [c EXCEPT !.err = TRUE]
      ELSE IF oleftIdx < leftIdx THEN c
      ELSE IF oleftIdx = leftIdx /\ other.rightParent # -1 /\ orightIdx < 0
      THEN [c EXCEPT !.err = TRUE]
      ELSE IF oleftIdx = leftIdx /\ orightIdx = rightIdx
              /\ lvCmp(cg, newItem.opId, other.opId) < 0
      THEN c
      ELSE LET scanning == IF oleftIdx = leftIdx THEN orightIdx < rightIdx
                           ELSE c.scanning
               scanEndPos == IF other.endState = INS THEN c.scanEndPos + 1
                             ELSE c.scanEndPos
               scanIdx == c.scanIdx + 1
           IN integrateScan(items, cg, newItem, leftIdx, rightIdx,
                [idx |-> IF scanning THEN c.idx ELSE scanIdx,
                 endPos |-> IF scanning THEN c.endPos ELSE scanEndPos,
                 scanIdx |-> scanIdx, scanEndPos |-> scanEndPos,
                 scanning |-> scanning, err |-> FALSE])))

\* integrate returns the cursor [idx, endPos, err].
integrate(items, cg, newItem, cursor) ==
  IF cursor.idx >= Len(items) \/ At(items, cursor.idx).curState # NYI
  THEN [idx |-> cursor.idx, endPos |-> cursor.endPos, err |-> FALSE]
  ELSE Let(IF newItem.rightParent = -1 THEN Len(items)
           ELSE findItemIdx(items, newItem.rightParent),
           LAMBDA rightIdx :
             IF rightIdx < 0
             THEN [idx |-> cursor.idx, endPos |-> cursor.endPos, err |-> TRUE]
             ELSE Let(integrateScan(items, cg, newItem, cursor.idx - 1, rightIdx,
                        [idx |-> cursor.idx, endPos |-> cursor.endPos,
                         scanIdx |-> cursor.idx, scanEndPos |-> cursor.endPos,
                         scanning |-> FALSE, err |-> FALSE]),
                      LAMBDA c : [idx |-> c.idx, endPos |-> c.endPos, err |-> c.err]))

\* The loop of apply1 (del) that looks for the next Inserted item; idx = -1
\* stands for the dereference of a null item.
RECURSIVE nextInserted(_, _, _)
nextInserted(items, idx, endPos) ==
  IF ~InRange(items, idx) THEN [idx |-> -1, endPos |-> endPos]
  ELSE IF At(items, idx).curState = INS THEN [idx |-> idx, endPos |-> endPos]
  ELSE nextInserted(items, idx + 1,
                    IF At(items, idx).endState = INS THEN endPos + 1 ELSE endPos)

\* The right-parent scan of apply1 (ins).
RECURSIVE findRightParent(_, _, _)
findRightParent(items, i, originLeft) ==
  IF i >= Len(items) THEN -1
  ELSE IF At(items, i).curState # NYI
  THEN IF At(items, i).originLeft = originLeft THEN At(items, i).opId ELSE -1
  ELSE findRightParent(items, i + 1, originLeft)

apply1Del(ctx, ol, opId) ==
  Let(findByCurPos(ctx, At(ol.ops, opId).pos), LAMBDA cursor :
  Let(nextInserted(ctx.items, cursor.idx, cursor.endPos), LAMBDA t :
    IF t.idx < 0 THEN [ctx EXCEPT !.err = TRUE]
    ELSE [ctx EXCEPT
            !.snapshot = IF At(ctx.items, t.idx).endState = INS /\ ctx.hasSnapshot
                         THEN snapshotDelete(@, t.endPos) ELSE @,
            !.items[t.idx + 1].curState = DEL,
            !.items[t.idx + 1].endState = DEL,
            !.delTargets = SetAt(@, opId, At(ctx.items, t.idx).opId),
            !.hint = NoHint]))

apply1Ins(ctx, ol, opId) ==
  Let(findByCurPos(ctx, At(ol.ops, opId).pos), LAMBDA cursor :
    IF cursor.idx > 0 /\ At(ctx.items, cursor.idx - 1).curState # INS
    THEN [ctx EXCEPT !.err = TRUE]
    ELSE
  Let(IF cursor.idx = 0 THEN -1 ELSE At(ctx.items, cursor.idx - 1).opId,
      LAMBDA originLeft :
  Let([opId |-> opId, curState |-> INS, endState |-> INS,
       originLeft |-> originLeft,
       rightParent |-> findRightParent(ctx.items, cursor.idx, originLeft)],
      LAMBDA newItem :
  Let(integrate(ctx.items, ol.cg, newItem, cursor), LAMBDA c :
    IF c.err THEN [ctx EXCEPT !.err = TRUE]
    ELSE [ctx EXCEPT
            !.items = SpliceIn(@, c.idx, newItem),
            !.snapshot = IF ctx.hasSnapshot
                         THEN snapshotInsert(@, c.endPos, At(ol.ops, opId).content)
                         ELSE @,
            !.hint = [pos |-> At(ol.ops, opId).pos + 1, idx |-> c.idx + 1,
                      endPos |-> c.endPos + 1]]))))

apply1(ctx, ol, opId) ==
  IF ctx.err THEN ctx
  ELSE IF ~InRange(ol.ops, opId) THEN [ctx EXCEPT !.err = TRUE]
  ELSE IF At(ol.ops, opId).type = "del" THEN apply1Del(ctx, ol, opId)
  ELSE apply1Ins(ctx, ol, opId)

\* The LVs of a list of ranges, ascending.
RECURSIVE rangeLVs(_)
rangeLVs(ranges) ==
  IF ranges = <<>> THEN <<>>
  ELSE [i \in 1..(Head(ranges)[2] - Head(ranges)[1]) |-> Head(ranges)[1] + i - 1]
         \o rangeLVs(Tail(ranges))

RECURSIVE retreatAll(_, _, _)
retreatAll(ctx, ol, lvs) ==
  IF lvs = <<>> THEN ctx ELSE retreatAll(retreat1(ctx, ol, Head(lvs)), ol, Tail(lvs))

RECURSIVE advanceAll(_, _, _)
advanceAll(ctx, ol, lvs) ==
  IF lvs = <<>> THEN ctx ELSE advanceAll(advance1(ctx, ol, Head(lvs)), ol, Tail(lvs))

RECURSIVE applyAll(_, _, _, _)
applyAll(ctx, ol, lv, vEnd) ==
  IF lv >= vEnd THEN ctx ELSE applyAll(apply1(ctx, ol, lv), ol, lv + 1, vEnd)

\* prepareVersion that keeps the cursor hint over the retreat and advance
\* loops.
prepareVersionKeepHint(ctx, ol, parents) ==
  Let(diff(ol.cg, ctx.curVersion, parents), LAMBDA d :
    IF d.err THEN [ctx EXCEPT !.err = TRUE]
    ELSE advanceAll(retreatAll(ctx, ol, Reverse(rangeLVs(d.aOnly))),
                    ol, rangeLVs(d.bOnly)))

\* prepareVersion without the retreat loop.
prepareVersionNoRetreat(ctx, ol, parents) ==
  Let(diff(ol.cg, ctx.curVersion, parents), LAMBDA d :
    IF d.err THEN [ctx EXCEPT !.err = TRUE]
    ELSE advanceAll(IF d.aOnly # <<>> \/ d.bOnly # <<>>
                    THEN [ctx EXCEPT !.hint = NoHint] ELSE ctx,
                    ol, rangeLVs(d.bOnly)))

\* The part of an iteration of traverseAndApply before its apply loop: the
\* diff between ctx.curVersion and the parents of the ops to apply, the
\* retreat loop (descending) and the advance loop (ascending).
prepareVersion(ctx, ol, parents) ==
  Let(diff(ol.cg, ctx.curVersion, parents), LAMBDA d :
    IF d.err THEN [ctx EXCEPT !.err = TRUE]
    ELSE advanceAll(
           retreatAll(IF d.aOnly # <<>> \/ d.bOnly # <<>>
                      THEN [ctx EXCEPT !.hint = NoHint] ELSE ctx,
                      ol, Reverse(rangeLVs(d.aOnly))),
           ol, rangeLVs(d.bOnly)))

\* traverseEntry without the update of ctx.curVersion after the apply loop.
traverseEntryKeepVersion(ctx, ol, entry, fromOp, toOp) ==
  LET vStart == max2(fromOp, entry.version)
      vEnd == min2(toOp, entry.vEnd)
  IN applyAll(prepareVersion(ctx, ol, IF vStart = entry.version THEN entry.parents
                                      ELSE <<vStart - 1>>),
              ol, vStart, vEnd)

\* One iteration of the entry loop of traverseAndApply.
traverseEntry(ctx, ol, entry, fromOp, toOp) ==
  LET vStart == max2(fromOp, entry.version)
      vEnd == min2(toOp, entry.vEnd)
  IN Let(applyAll(prepareVersion(ctx, ol, IF vStart = entry.version THEN entry.parents
                                          ELSE <<vStart - 1>>),
                  ol, vStart, vEnd),
         LAMBDA c3 : IF c3.err THEN c3
                     ELSE [c3 EXCEPT !.curVersion = <<vEnd - 1>>])

RECURSIVE traverseLoop(_, _, _, _, _)
traverseLoop(ctx, ol, entryIdx, fromOp, toOp) ==
  IF ctx.err \/ entryIdx >= Len(ol.cg.entries)
     \/ At(ol.cg.entries, entryIdx).version >= toOp
  THEN ctx
  ELSE traverseLoop(traverseEntry(ctx, ol, At(ol.cg.entries, entryIdx), fromOp, toOp),
                    ol, entryIdx + 1, fromOp, toOp)

traverseAndApply(ctx, ol, fromOp, toOp) ==
  IF ctx.err \/ fromOp = toOp THEN ctx
  ELSE Let(binarySearch([i \in 1..Len(ol.cg.entries) |->
               IF fromOp < ol.cg.entries[i].version THEN -1
               ELSE IF fromOp >= ol.cg.entries[i].vEnd THEN 1 ELSE 0]),
           LAMBDA entryIdx :
             IF entryIdx < 0 THEN [ctx EXCEPT !.err = TRUE]
             ELSE traverseLoop(ctx, ol, entryIdx, fromOp, toOp))

\* ----- branch ------------------------------------------------------------------------
\* A Branch is [snapshot, version]; err records a throw of the call that
\* produced it.
createEmptyBranch == [snapshot |-> <<>>, version |-> <<>>, err |-> FALSE]

checkout(ol) ==
  Let(traverseAndApply(createEditContext(Len(ol.ops)), ol, 0, nextLV(ol.cg)),
      LAMBDA ctx : [snapshot |-> ctx.snapshot, version |-> ol.cg.heads,
                    err |-> ctx.err])

checkoutSimple(ol) == checkout(ol).snapshot

\* The positional application of one op by applyFastForward; ops[lv] undefined
\* is a throw.
RECURSIVE ffApply(_, _, _)
ffApply(b, ol, lvs) ==
  IF lvs = <<>> \/ b.err THEN b
  ELSE IF ~InRange(ol.ops, Head(lvs)) THEN [b EXCEPT !.err = TRUE]
  ELSE LET op == At(ol.ops, Head(lvs))
       IN ffApply([b EXCEPT !.snapshot = IF op.type = "ins"
                                         THEN SpliceIn(@, op.pos, op.content)
                                         ELSE SpliceOut(@, op.pos, 1)],
                  ol, Tail(lvs))

applyFastForward(b, ol, mergeVersion) ==
  Let(diff(ol.cg, b.version, mergeVersion), LAMBDA d :
  Let(ffApply(b, ol, rangeLVs(d.bOnly)), LAMBDA b1 :
    IF d.err \/ b1.err THEN [b1 EXCEPT !.err = TRUE]
    ELSE Let(findDominatorsR(ol.cg, b.version \o mergeVersion), LAMBDA dom :
           [b1 EXCEPT !.version = dom.result, !.err = dom.err])))

\* PLACEHOLDER_OFFSET is 1e12 in the source; any value above every LV of the
\* oplog separates the placeholders from the ops in the same way.
PLACEHOLDER_OFFSET == 1000000

\* The visit callback of mergeChangesIntoBranch on one of its two lists.
mcbVisit(target, span) ==
  IF target # <<>> /\ target[Len(target)][1] = span[2]
  THEN [target EXCEPT ![Len(target)] = <<span[1], @[2]>>]
  ELSE Append(target, span)

RECURSIVE mcbCollect(_, _, _)
mcbCollect(visits, wantNew, target) ==
  IF visits = <<>> THEN target
  ELSE mcbCollect(Tail(visits), wantNew,
                  IF (Head(visits).flag = DiffFlagOnlyB) = wantNew
                  THEN mcbVisit(target, Head(visits).range) ELSE target)

placeholderItem(i) ==
  [opId |-> i + PLACEHOLDER_OFFSET, curState |-> INS, endState |-> INS,
   originLeft |-> -1, rightParent |-> -1]

RECURSIVE traverseRanges(_, _, _)
traverseRanges(ctx, ol, ranges) ==
  IF ranges = <<>> THEN ctx
  ELSE traverseRanges(traverseAndApply(ctx, ol, Head(ranges)[1], Head(ranges)[2]),
                      ol, Tail(ranges))

\* The replay of conflictOps against the snapshot of the branch.
mcbReplayConflictsOnSnapshot(b, ol, fc) ==
  traverseRanges(
    [items |-> [i \in 1..(IF b.version = <<>> THEN 0
                          ELSE SeqMax(b.version) + 1) |->
                  placeholderItem(i - 1)],
     delTargets |-> [i \in 1..Len(ol.ops) |-> -1],
     curVersion |-> fc.result, hint |-> NoHint,
     snapshot |-> b.snapshot, hasSnapshot |-> TRUE, err |-> FALSE],
    ol, Reverse(mcbCollect(fc.visits, FALSE, <<>>)))

\* The context of mergeChangesIntoBranch after the replay of conflictOps
\* with a null snapshot; fc is the result of findConflicting.
mcbReplayConflicts(b, ol, fc) ==
  traverseRanges(
    [items |-> [i \in 1..(IF b.version = <<>> THEN 0
                          ELSE SeqMax(b.version) + 1) |->
                  placeholderItem(i - 1)],
     delTargets |-> [i \in 1..Len(ol.ops) |-> -1],
     curVersion |-> fc.result, hint |-> NoHint,
     snapshot |-> b.snapshot, hasSnapshot |-> FALSE, err |-> FALSE],
    ol, Reverse(mcbCollect(fc.visits, FALSE, <<>>)))

mergeChangesIntoBranch(b, ol, mergeVersion) ==
  Let(isFastForward3(ol.cg, b.version, mergeVersion), LAMBDA ff :
    IF ff = "err" THEN [b EXCEPT !.err = TRUE]
    ELSE IF ff = "true" THEN applyFastForward(b, ol, mergeVersion)
    ELSE
  Let(findConflicting(ol.cg, b.version, mergeVersion), LAMBDA fc :
    IF fc.err THEN [b EXCEPT !.err = TRUE]
    ELSE
  Let(traverseRanges(
        [mcbReplayConflicts(b, ol, fc) EXCEPT !.hasSnapshot = TRUE],
        ol, Reverse(mcbCollect(fc.visits, TRUE, <<>>))),
      LAMBDA ctx2 :
        IF ctx2.err THEN [b EXCEPT !.snapshot = ctx2.snapshot, !.err = TRUE]
        ELSE Let(findDominatorsR(ol.cg, b.version \o mergeVersion), LAMBDA dom :
               [snapshot |-> ctx2.snapshot, version |-> dom.result,
                err |-> dom.err]))))

\* ----- document -----------------------------------------------------------------------
\* A Document is an oplog and a branch; getText reads the snapshot once a
\* merge has dropped the rope.
\* The inner loop of canFastForward over the branch version, for one head h:
\* "true" when every bv is contained, "false" at the first that is not, "err"
\* when versionContainsLV throws.
RECURSIVE cffBranch(_, _, _)
\* cffBranch that tests the first branch version only.
cffBranchFirst(cg, h, bvs) ==
  IF bvs = <<>> THEN "true" ELSE versionContainsLV3(cg, <<h>>, Head(bvs))

cffBranch(cg, h, bvs) ==
  IF bvs = <<>> THEN "true"
  ELSE Let(versionContainsLV3(cg, <<h>>, Head(bvs)),
           LAMBDA r : IF r = "true" THEN cffBranch(cg, h, Tail(bvs)) ELSE r)

RECURSIVE cffHeads(_, _, _)
cffHeads(cg, branchVersion, hs) ==
  IF hs = <<>> THEN "true"
  ELSE IF Includes(branchVersion, Head(hs))
  THEN cffHeads(cg, branchVersion, Tail(hs))
  ELSE Let(cffBranch(cg, Head(hs), branchVersion),
           LAMBDA r : IF r = "true" THEN cffHeads(cg, branchVersion, Tail(hs))
                      ELSE r)

canFastForward3(cg, branchVersion, mergeHeads) ==
  IF lvEq(branchVersion, mergeHeads) THEN "true"
  ELSE IF branchVersion = <<>>
  THEN IF mergeHeads = <<>> THEN "true" ELSE "false"
  ELSE cffHeads(cg, branchVersion, mergeHeads)

canFastForward(cg, branchVersion, mergeHeads) ==
  canFastForward3(cg, branchVersion, mergeHeads) = "true"

createDocument == [oplog |-> createOpLog, branch |-> createEmptyBranch]

openDocument(ol) == [oplog |-> ol, branch |-> checkout(ol)]

RECURSIVE SpliceInAll(_, _, _)
SpliceInAll(s, pos, content) ==
  IF content = <<>> THEN s
  ELSE SpliceInAll(SpliceIn(s, pos, Head(content)), pos + 1, Tail(content))

docInsert(doc, agent, pos, content) ==
  Let(localInsert(doc.oplog, agent, pos, content), LAMBDA ol :
    [oplog |-> ol,
     branch |-> [doc.branch EXCEPT !.snapshot = SpliceInAll(@, pos, content),
                                   !.version = ol.cg.heads]])

docDelete(doc, agent, pos, len) ==
  Let(localDelete(doc.oplog, agent, pos, len), LAMBDA ol :
    [oplog |-> ol,
     branch |-> [doc.branch EXCEPT !.snapshot = SpliceOut(@, pos, len),
                                   !.version = ol.cg.heads]])

getContent(doc) == doc.branch.snapshot

mergeRemote(doc, remoteOplog) ==
  Let(mergeOplogInto3(doc.oplog, remoteOplog), LAMBDA m :
    IF m.err THEN [oplog |-> m.oplog, branch |-> [doc.branch EXCEPT !.err = TRUE]]
    ELSE
  Let(canFastForward3(m.oplog.cg, doc.branch.version, m.oplog.cg.heads), LAMBDA ff :
    [oplog |-> m.oplog,
     branch |-> IF ff = "err" THEN [doc.branch EXCEPT !.err = TRUE]
                ELSE IF ff = "true"
                THEN mergeChangesIntoBranch(doc.branch, m.oplog, m.oplog.cg.heads)
                ELSE Let(checkout(m.oplog),
                         LAMBDA nb : IF nb.err THEN [doc.branch EXCEPT !.err = TRUE]
                                     ELSE nb)]))

\* ----- the text of a Document ----------------------------------------------------------
\* The DocState of a Document is [rope, textCache, needsRebuild].  A Rope of
\* up to SPLIT_THRESHOLD = 1024 characters is a single leaf, so the rope is
\* the string of its leaf ('' for a null root); NoRope and NoCache are null.
NoRope == "null"
NoCache == "null"

createDocState == [rope |-> <<>>, textCache |-> <<>>, needsRebuild |-> FALSE]

\* Rope.insert(pos, ch) on a leaf: insertAt.
ropeInsert(rope, pos, ch) ==
  SubSeq(rope, 1, min2(pos, Len(rope))) \o <<ch>>
    \o SubSeq(rope, min2(pos, Len(rope)) + 1, Len(rope))

\* Rope.delete(pos) on a leaf: deleteAt.
ropeDelete(rope, pos) ==
  SubSeq(rope, 1, min2(pos, Len(rope))) \o SubSeq(rope, pos + 2, Len(rope))

RECURSIVE ropeInsertAll(_, _, _)
ropeInsertAll(rope, pos, content) ==
  IF content = <<>> THEN rope
  ELSE ropeInsertAll(ropeInsert(rope, pos, Head(content)), pos + 1, Tail(content))

RECURSIVE ropeDeleteAll(_, _, _)
ropeDeleteAll(rope, pos, len) ==
  IF len = 0 THEN rope ELSE ropeDeleteAll(ropeDelete(rope, pos), pos, len - 1)

\* What docInsert, docDelete and mergeRemote do to the DocState.
docStateInsert(state, pos, content) ==
  IF state.rope # NoRope /\ ~state.needsRebuild
  THEN [state EXCEPT !.rope = ropeInsertAll(@, pos, content), !.textCache = NoCache]
  ELSE [state EXCEPT !.needsRebuild = TRUE, !.textCache = NoCache]

docStateDelete(state, pos, len) ==
  IF state.rope # NoRope /\ ~state.needsRebuild
  THEN [state EXCEPT !.rope = ropeDeleteAll(@, pos, len), !.textCache = NoCache]
  ELSE [state EXCEPT !.needsRebuild = TRUE, !.textCache = NoCache]

docStateMerge(state) == [rope |-> NoRope, textCache |-> NoCache, needsRebuild |-> TRUE]

\* getText(doc): snapshot.join('') of an array of characters is the string
\* of these characters.
getText(doc, state) ==
  IF state.textCache # NoCache THEN state.textCache
  ELSE IF state.rope # NoRope /\ ~state.needsRebuild THEN state.rope
  ELSE doc.branch.snapshot

\* ----- text document -----------------------------------------------------------------
\* A string is the sequence of its characters.  String.prototype.slice(from)
\* and slice(0, to): an index past the end is the end.
strSlice(s, from, to) == SubSeq(s, min2(from, Len(s)) + 1, min2(to, Len(s)))

\* A TextDocument is [oplog, text, version]; err records a throw of the call
\* that produced it.
createTextDocument ==
  [oplog |-> createOpLog, text |-> <<>>, version |-> <<>>, err |-> FALSE]

\* textDocInsert(doc, agent, pos, content); content.split('') is the array of
\* the characters of content.
textDocInsert(doc, agent, pos, content) ==
  Let(localInsert(doc.oplog, agent, pos, content), LAMBDA ol :
    [doc EXCEPT !.oplog = ol,
                !.text = strSlice(doc.text, 0, pos) \o content
                           \o strSlice(doc.text, pos, Len(doc.text)),
                !.version = ol.cg.heads])

textDocDelete(doc, agent, pos, len) ==
  Let(localDelete(doc.oplog, agent, pos, len), LAMBDA ol :
    [doc EXCEPT !.oplog = ol,
                !.text = strSlice(doc.text, 0, pos)
                           \o strSlice(doc.text, pos + len, Len(doc.text)),
                !.version = ol.cg.heads])

getTextDocText(doc) == doc.text

\* The fast-forward loop of mergeTextRemote over the LVs of the diff; the
\* result is [text, err], err standing for the read of an undefined op.
RECURSIVE textFfApply(_, _, _)
\* The loop with a delete that removes the character before op.pos.
textFfApplyDeleteBefore(text, ol, lvs) ==
  IF lvs = <<>> THEN [text |-> text, err |-> FALSE]
  ELSE IF ~InRange(ol.ops, Head(lvs)) THEN [text |-> text, err |-> TRUE]
  ELSE Let(At(ol.ops, Head(lvs)), LAMBDA op :
         textFfApply(IF op.type = "ins"
                     THEN strSlice(text, 0, op.pos) \o <<op.content>>
                            \o strSlice(text, op.pos, Len(text))
                     ELSE strSlice(text, 0, op.pos - 1)
                            \o strSlice(text, op.pos, Len(text)),
                     ol, Tail(lvs)))

textFfApply(text, ol, lvs) ==
  IF lvs = <<>> THEN [text |-> text, err |-> FALSE]
  ELSE IF ~InRange(ol.ops, Head(lvs)) THEN [text |-> text, err |-> TRUE]
  ELSE Let(At(ol.ops, Head(lvs)), LAMBDA op :
         textFfApply(IF op.type = "ins"
                     THEN strSlice(text, 0, op.pos) \o <<op.content>>
                            \o strSlice(text, op.pos, Len(text))
                     ELSE strSlice(text, 0, op.pos)
                            \o strSlice(text, op.pos + 1, Len(text)),
                     ol, Tail(lvs)))

\* mergeTextRemote(doc, remoteOplog); a throw leaves text and version as they
\* were, with the oplog as mergeOplogInto changed it.
mergeTextRemote(doc, remoteOplog) ==
  Let(mergeOplogInto3(doc.oplog, remoteOplog), LAMBDA m :
    IF m.err THEN [doc EXCEPT !.oplog = m.oplog, !.err = TRUE]
    ELSE
  Let(canFastForward3(m.oplog.cg, doc.version, m.oplog.cg.heads), LAMBDA ff :
    IF ff = "err" THEN [doc EXCEPT !.oplog = m.oplog, !.err = TRUE]
    ELSE IF ff = "true"
    THEN Let(diff(m.oplog.cg, doc.version, m.oplog.cg.heads), LAMBDA d :
           IF d.err THEN [doc EXCEPT !.oplog = m.oplog, !.err = TRUE]
           ELSE
         Let(textFfApply(doc.text, m.oplog, rangeLVs(d.bOnly)), LAMBDA t :
           IF t.err THEN [doc EXCEPT !.oplog = m.oplog, !.err = TRUE]
           ELSE
         Let(findDominatorsR(m.oplog.cg, doc.version \o m.oplog.cg.heads),
             LAMBDA dom :
               [oplog |-> m.oplog,
                text |-> IF dom.err THEN doc.text ELSE t.text,
                version |-> IF dom.err THEN doc.version ELSE dom.result,
                err |-> dom.err])))
    ELSE Let(checkout(m.oplog), LAMBDA nb :
           IF nb.err THEN [doc EXCEPT !.oplog = m.oplog, !.err = TRUE]
           ELSE [oplog |-> m.oplog, text |-> nb.snapshot,
                 version |-> m.oplog.cg.heads, err |-> FALSE])))

\* ----- the peers ----------------------------------------------------------------------
Init ==
  /\ oplog = [p \in Peers |-> createOpLog]
  /\ branch = [p \in Peers |-> createEmptyBranch]
  /\ pc = [p \in Peers |-> "checkout"]

RECURSIVE SumAuthored(_)
SumAuthored(n) ==
  IF n = 0 THEN 0 ELSE nextSeqForAgent(oplog[n].cg, n) + SumAuthored(n - 1)

CanAuthor == SumAuthored(NPeers) < MaxOps

NextLetter(p) == Letters[p][nextSeqForAgent(oplog[p].cg, p) + 1]

LocalInsert(p) ==
  /\ CanAuthor
  /\ \E doc \in {checkout(oplog[p])} :
       /\ ~doc.err
       /\ \E pos \in 0..Len(doc.snapshot) :
            oplog' = [oplog EXCEPT ![p] = localInsert(@, p, pos, <<NextLetter(p)>>)]
  /\ UNCHANGED <<branch, pc>>

LocalDelete(p) ==
  /\ CanAuthor
  /\ \E doc \in {checkout(oplog[p])} :
       /\ ~doc.err
       /\ \E pos \in 0..(Len(doc.snapshot) - 1) :
            oplog' = [oplog EXCEPT ![p] = localDelete(@, p, pos, 1)]
  /\ UNCHANGED <<branch, pc>>

\* The parents of LV lv in cg, as raw versions.
rawParentsOf(cg, lv) ==
  Let(findEntryContainingRaw(cg, lv),
      LAMBDA e : lvToRawList(cg, IF lv = e.version THEN e.parents ELSE <<lv - 1>>))

\* Peer p receives the op that has LV lv at peer q, with its identity, its
\* parents as raw versions and its payload, once it knows the parents.
PushOp(p, q) ==
  /\ p # q
  /\ Len(oplog[p].ops) = nextLV(oplog[p].cg)
  /\ \E lv \in 0..(nextLV(oplog[q].cg) - 1) :
       \E id \in {lvToRaw(oplog[q].cg, lv)},
          parents \in {rawParentsOf(oplog[q].cg, lv)} :
          /\ InRange(oplog[q].ops, lv)
          /\ ~hasVersion(oplog[p].cg, id[1], id[2])
          /\ \A i \in 1..Len(parents) :
               hasVersion(oplog[p].cg, parents[i][1], parents[i][2])
          /\ oplog' = [oplog EXCEPT ![p] =
                         pushOp(@, id, parents, At(oplog[q].ops, lv).type,
                                At(oplog[q].ops, lv).pos,
                                At(oplog[q].ops, lv).content).oplog]
  /\ UNCHANGED <<branch, pc>>

MergeOplogInto(p, q) ==
  /\ p # q
  /\ \E merged \in {mergeOplogInto(oplog[p], oplog[q])} :
       /\ Len(merged.ops) <= MaxOpsLen
       /\ oplog' = [oplog EXCEPT ![p] = merged]
  /\ UNCHANGED <<branch, pc>>

Checkout(p) ==
  /\ \E b \in {checkout(oplog[p])} :
       /\ ~b.err
       /\ branch' = [branch EXCEPT ![p] = b]
  /\ pc' = [pc EXCEPT ![p] = "checkout"]
  /\ UNCHANGED oplog

MergeChangesIntoBranch(p) ==
  /\ pc[p] = "checkout"
  /\ branch' = [branch EXCEPT ![p] =
                  mergeChangesIntoBranch(@, oplog[p], oplog[p].cg.heads)]
  /\ pc' = [pc EXCEPT ![p] = "merge"]
  /\ UNCHANGED oplog

\* The oplogs alone: local edits, delivery of single ops and whole-log merges.
Next ==
  \/ \E p \in Peers : LocalInsert(p)
  \/ \E p \in Peers : LocalDelete(p)
  \/ \E p, q \in Peers : PushOp(p, q)
  \/ \E p, q \in Peers : MergeOplogInto(p, q)

Spec == Init /\ [][Next]_vars

\* The peer that keeps a branch beside its oplog and merges into it.
BranchPeers == {1}

NextBranch ==
  \/ Next
  \/ \E p \in BranchPeers : Checkout(p)
  \/ \E p \in BranchPeers : MergeChangesIntoBranch(p)

SpecBranch == Init /\ [][NextBranch]_vars

\* The parents of LV v in a causal graph, as a set of LVs.
ParentLVs(cg, v) ==
  Let(findEntryContainingRaw(cg, v),
      LAMBDA e : IF v = e.version THEN {e.parents[i] : i \in 1..Len(e.parents)}
                 ELSE {v - 1})

\* The strict ancestors of LV v.
RECURSIVE AncestorsOf(_, _)
AncestorsOf(cg, v) ==
  UNION {{w} \cup AncestorsOf(cg, w) : w \in ParentLVs(cg, v)}

\* A set of LVs as an ascending array.
RECURSIVE AsFrontier(_)
AsFrontier(S) ==
  IF S = {} THEN <<>>
  ELSE Let(CHOOSE m \in S : \A w \in S : m <= w,
           LAMBDA m : <<m>> \o AsFrontier(S \ {m}))

\* The frontiers of a causal graph: the sets of known LVs none of which is an
\* ancestor of another.
Frontiers(cg) ==
  {AsFrontier(S) : S \in {T \in SUBSET (0..(nextLV(cg) - 1)) :
                            \A v, w \in T : v \notin AncestorsOf(cg, w)}}

\* mergeChangesIntoBranch(branch, oplog, mergeVersion) with an explicit
\* mergeVersion: any frontier of the oplog.  The branch is a checkout of an
\* earlier time or the result of such a replay; pc tells which path the call has taken, the fast-forward
\* ("merge") or the replay from the common ancestor ("replay").
MergeVersion(p) ==
  /\ pc[p] \in {"checkout", "replay"}
  /\ \E mergeVersion \in Frontiers(oplog[p].cg) :
       /\ branch' = [branch EXCEPT ![p] =
                       mergeChangesIntoBranch(@, oplog[p], mergeVersion)]
       /\ pc' = [pc EXCEPT ![p] =
                   IF isFastForward(oplog[p].cg, branch[p].version, mergeVersion)
                   THEN "merge" ELSE "replay"]
  /\ UNCHANGED oplog

\* The oplogs with single-op delivery, and a branch that is checked out and
\* merged up to a version.
NextVersion ==
  \/ \E p \in Peers : LocalInsert(p)
  \/ \E p \in Peers : LocalDelete(p)
  \/ \E p, q \in Peers : PushOp(p, q)
  \/ \E p \in BranchPeers : Checkout(p)
  \/ \E p \in BranchPeers : MergeVersion(p)

SpecVersion == Init /\ [][NextVersion]_vars

\* ----- the peers as documents ----------------------------------------------------------
Doc(p) == [oplog |-> oplog[p], branch |-> branch[p]]

AfterEdit(p) == [pc EXCEPT ![p] = IF @ = "merge" THEN "merge" ELSE "edit"]

\* docInsert(doc, agent, pos, ...items) with no item or with one.
DocInsert(p) ==
  /\ CanAuthor
  /\ \E pos \in 0..Len(branch[p].snapshot),
        content \in {<<>>, <<NextLetter(p)>>} :
       \E d \in {docInsert(Doc(p), p, pos, content)} :
          /\ oplog' = [oplog EXCEPT ![p] = d.oplog]
          /\ branch' = [branch EXCEPT ![p] = d.branch]
  /\ pc' = AfterEdit(p)

DocDelete(p) ==
  /\ CanAuthor
  /\ \E pos \in 0..(Len(branch[p].snapshot) - 1) :
       \E d \in {docDelete(Doc(p), p, pos, 1)} :
          /\ oplog' = [oplog EXCEPT ![p] = d.oplog]
          /\ branch' = [branch EXCEPT ![p] = d.branch]
  /\ pc' = AfterEdit(p)

MergeRemote(p, q) ==
  /\ p # q
  /\ \E d \in {mergeRemote(Doc(p), oplog[q])} :
       /\ Len(d.oplog.ops) <= MaxOpsLen
       /\ oplog' = [oplog EXCEPT ![p] = d.oplog]
       /\ branch' = [branch EXCEPT ![p] = d.branch]
  /\ pc' = [pc EXCEPT ![p] = "merge"]

\* The peer opens its document again from its oplog.
OpenDocument(p) ==
  /\ pc[p] # "checkout"
  /\ \E d \in {openDocument(oplog[p])} :
       /\ ~d.branch.err
       /\ branch' = [branch EXCEPT ![p] = d.branch]
  /\ pc' = [pc EXCEPT ![p] = "checkout"]
  /\ UNCHANGED oplog

NextDoc ==
  \/ \E p \in Peers : DocInsert(p)
  \/ \E p \in Peers : DocDelete(p)
  \/ \E p, q \in Peers : MergeRemote(p, q)
  \/ \E p \in Peers : OpenDocument(p)

SpecDoc == Init /\ [][NextDoc]_vars

\* The frontiers an op may name as its parents: none, or one known LV.
ParentChoices(cg) == {<<>>} \cup {<<v>> : v \in 0..(nextLV(cg) - 1)}

\* Peer p's agent edits on a branch of its history: the op reaches the oplog
\* through pushOp with the parents of that branch.  Another peer may then
\* receive the agent's ops with their seqs out of order.
PushOpBranch(p) ==
  /\ CanAuthor
  /\ Len(oplog[p].ops) = nextLV(oplog[p].cg)
  /\ \E parents \in ParentChoices(oplog[p].cg) :
       oplog' = [oplog EXCEPT ![p] =
                   pushOp(@, <<p, nextSeqForAgent(@.cg, p)>>,
                          lvToRawList(@.cg, parents), "ins", 0,
                          NextLetter(p)).oplog]
  /\ UNCHANGED <<branch, pc>>

\* The oplogs, with agents that edit on several branches.
NextRaw ==
  \/ Next
  \/ \E p \in Peers : PushOpBranch(p)

SpecRaw == Init /\ [][NextRaw]_vars

\* mergeOplogInto(oplog[p], oplog[q]), with room in ops for a peer that
\* merges back what it has sent.
MergeBack(p, q) ==
  /\ p # q
  /\ \E merged \in {mergeOplogInto(oplog[p], oplog[q])} :
       /\ Len(merged.ops) <= MaxMergeOpsLen
       /\ oplog' = [oplog EXCEPT ![p] = merged]
  /\ UNCHANGED <<branch, pc>>

\* The oplogs with local edits and whole-log merges only.
NextMerge ==
  \/ \E p \in Peers : LocalInsert(p)
  \/ \E p \in Peers : LocalDelete(p)
  \/ \E p, q \in Peers : MergeBack(p, q)

SpecMerge == Init /\ [][NextMerge]_vars

\* The letters agent p types next as one run of len elements.
NextRun(p, len) ==
  [i \in 1..len |-> Letters[p][nextSeqForAgent(oplog[p].cg, p) + i]]

\* Peer 1 types the text both peers start from, as one run at position 0.
InsertBase(p) ==
  /\ p = 1
  /\ pc[p] = "checkout"
  /\ oplog[p] = createOpLog
  /\ \E len \in 1..MaxBase :
       oplog' = [oplog EXCEPT ![p] = localInsert(@, p, 0, NextRun(p, len))]
  /\ pc' = [pc EXCEPT ![p] = "base"]
  /\ UNCHANGED branch

\* localInsert(oplog, agent, pos, ...content) with a run of several
\* elements, as the peer's one edit.
InsertRun(p) ==
  /\ pc[p] # "run"
  /\ \E doc \in {checkout(oplog[p])} :
       /\ ~doc.err
       /\ \E pos \in 0..Len(doc.snapshot),
             len \in 1..min2(MaxRun, MaxSeq - nextSeqForAgent(oplog[p].cg, p)) :
            oplog' = [oplog EXCEPT ![p] = localInsert(@, p, pos, NextRun(p, len))]
  /\ pc' = [pc EXCEPT ![p] = "run"]
  /\ UNCHANGED branch

\* localDelete(oplog, agent, pos, len) of one or more elements, as the
\* peer's one edit.
DeleteRun(p) ==
  /\ pc[p] # "run"
  /\ \E doc \in {checkout(oplog[p])} :
       /\ ~doc.err
       /\ \E pos \in 0..(Len(doc.snapshot) - 1) :
            \E len \in 1..min2(Len(doc.snapshot) - pos,
                               min2(MaxRun, MaxSeq - nextSeqForAgent(oplog[p].cg, p))) :
               oplog' = [oplog EXCEPT ![p] = localDelete(@, p, pos, len)]
  /\ pc' = [pc EXCEPT ![p] = "run"]
  /\ UNCHANGED branch

MergeRuns(p, q) ==
  /\ p # q
  /\ \E merged \in {mergeOplogInto(oplog[p], oplog[q])} :
       /\ Len(merged.ops) <= MaxRunOpsLen
       /\ oplog' = [oplog EXCEPT ![p] = merged]
  /\ UNCHANGED <<branch, pc>>

\* Two peers that start from a common text, make one edit each (a run typed
\* or a range deleted) and merge.
NextRuns ==
  \/ \E p \in Peers : InsertBase(p)
  \/ \E p \in Peers : InsertRun(p)
  \/ \E p \in Peers : DeleteRun(p)
  \/ \E p, q \in Peers : MergeRuns(p, q)

SpecRuns == Init /\ [][NextRuns]_vars

\* ----- one oplog edited in sequence ------------------------------------------------
\* The next len letters of agent a in oplog ol.
LettersFor(ol, a, len) ==
  [i \in 1..len |-> Letters[a][nextSeqForAgent(ol.cg, a) + i]]

\* The lengths of content agent a may still insert into ol.
InsertLens(ol, a) ==
  0..min2(2, min2(MaxLinearOps - nextLV(ol.cg), MaxSeq - nextSeqForAgent(ol.cg, a)))

\* localInsert(oplog, agent, pos, ...content) on the one oplog, by either
\* agent, after the edits made so far.
SeqInsert(a) ==
  /\ \E doc \in {checkout(oplog[1])} :
       /\ ~doc.err
       /\ Len(oplog[1].cg.entries) < MaxLinearOps
       /\ \E pos \in 0..Len(doc.snapshot), len \in InsertLens(oplog[1], a) :
            oplog' = [oplog EXCEPT ![1] =
                        localInsert(@, a, pos, LettersFor(@, a, len))]
  /\ UNCHANGED <<branch, pc>>

\* localDelete(oplog, agent, pos, 1) on the one oplog.
SeqDelete(a) ==
  /\ \E doc \in {checkout(oplog[1])} :
       /\ ~doc.err
       /\ nextLV(oplog[1].cg) < MaxLinearOps
       /\ \E pos \in 0..(Len(doc.snapshot) - 1) :
            oplog' = [oplog EXCEPT ![1] = localDelete(@, a, pos, 1)]
  /\ UNCHANGED <<branch, pc>>

NextLinear ==
  \/ \E a \in Agents : SeqInsert(a)
  \/ \E a \in Agents : SeqDelete(a)

SpecLinear == Init /\ [][NextLinear]_vars

\* ----- a TextDocument beside a Document ------------------------------------------------
\* The TextDocument is (oplog[1], branch[1]) and the Document that receives
\* the same calls is (oplog[3], branch[3]); peer 2 is the remote peer.
Role == [text |-> 1, remote |-> 2, doc |-> 3]

TextDoc ==
  [oplog |-> oplog[Role.text], text |-> branch[Role.text].text,
   version |-> branch[Role.text].version, err |-> branch[Role.text].err]

InitText ==
  /\ oplog = [p \in {Role.text, Role.remote, Role.doc} |-> createOpLog]
  /\ branch = [p \in {Role.text, Role.remote, Role.doc} |->
                IF p = Role.text
                THEN [text |-> createTextDocument.text,
                      version |-> createTextDocument.version,
                      err |-> createTextDocument.err]
                ELSE createDocument.branch]
  /\ pc = [p \in {Role.text, Role.remote, Role.doc} |->
            IF p = Role.doc THEN createDocState ELSE "checkout"]

\* The two documents after a call on each; the DocState of the Document is
\* kept in pc[Role.doc] and changes when the call returns.
BothDocs(t, d, state) ==
  /\ oplog' = [oplog EXCEPT ![Role.text] = t.oplog, ![Role.doc] = d.oplog]
  /\ branch' = [branch EXCEPT
                  ![Role.text] = [text |-> t.text, version |-> t.version,
                                 err |-> t.err],
                  ![Role.doc] = d.branch]
  /\ pc' = [pc EXCEPT ![Role.doc] = IF d.branch.err THEN @ ELSE state]

NoThrowYet == ~branch[Role.text].err /\ ~branch[Role.doc].err

\* textDocInsert(textDoc, 'A', pos, content) and docInsert(doc, 'A', pos,
\* ...content), content of 0 to 2 characters.
TextInsert ==
  /\ NoThrowYet
  /\ \E pos \in 0..Len(TextDoc.text),
        len \in 0..min2(2, MaxOps - SumAuthored(NPeers)) :
       \E content \in {LettersFor(oplog[Role.text], Role.text, len)} :
         BothDocs(textDocInsert(TextDoc, Role.text, pos, content),
                  docInsert(Doc(Role.doc), Role.text, pos, content),
                  docStateInsert(pc[Role.doc], pos, content))

\* textDocDelete(textDoc, 'A', pos, len) and docDelete(doc, 'A', pos, len).
TextDelete ==
  /\ NoThrowYet
  /\ \E pos \in 0..(Len(TextDoc.text) - 1) :
       \E len \in 1..min2(Len(TextDoc.text) - pos, MaxOps - SumAuthored(NPeers)) :
         BothDocs(textDocDelete(TextDoc, Role.text, pos, len),
                  docDelete(Doc(Role.doc), Role.text, pos, len),
                  docStateDelete(pc[Role.doc], pos, len))

\* mergeTextRemote(textDoc, remote) and mergeRemote(doc, remote).
TextMerge ==
  /\ NoThrowYet
  /\ \E t \in {mergeTextRemote(TextDoc, oplog[Role.remote])},
        d \in {mergeRemote(Doc(Role.doc), oplog[Role.remote])} :
       /\ Len(t.oplog.ops) <= MaxOpsLen
       /\ BothDocs(t, d, docStateMerge(pc[Role.doc]))

NextText ==
  \/ TextInsert
  \/ TextDelete
  \/ TextMerge
  \/ LocalInsert(Role.remote)
  \/ LocalDelete(Role.remote)
  \/ MergeOplogInto(Role.remote, Role.text)

SpecText == InitText /\ [][NextText]_vars

\* ----- a causal graph built entry by entry ------------------------------------------
\* add(cg, agent, seq, seq + len, parents) on the causal graph of oplog[1]:
\* a run of one or two versions of the agent, with any frontier of the graph
\* as parents.  Only the causal graph is built; ops stays empty.
AddEntry(a) ==
  \E len \in 1..2, parents \in Frontiers(oplog[1].cg) :
     /\ nextLV(oplog[1].cg) + len <= MaxCGLen
     /\ oplog' = [oplog EXCEPT ![1].cg =
                    add(@, a, nextSeqForAgent(@, a), nextSeqForAgent(@, a) + len,
                        parents).cg]
     /\ UNCHANGED <<branch, pc>>

NextCG == \E a \in Agents : AddEntry(a)

SpecCG == Init /\ [][NextCG]_vars

\* ----- what an oplog contains ---------------------------------------------------------
\* The identities (agent, seq) an oplog knows.
Ids(ol) == {id \in Agents \X (0..MaxOps) : hasVersion(ol.cg, id[1], id[2])}

\* The LV an oplog gives to an identity it knows.
LVOf(ol, id) == rawToLV(ol.cg, id[1], id[2])

\* The op an oplog stores for an identity: the element of ops at its LV.
OpAt(ol, id) ==
  IF InRange(ol.ops, LVOf(ol, id)) THEN At(ol.ops, LVOf(ol, id)) ELSE NoContent

\* The parents of an identity, as a set of identities.
ParentsOf(ol, id) ==
  Let(rawParentsOf(ol.cg, LVOf(ol, id)),
      LAMBDA ps : {ps[i] : i \in 1..Len(ps)})

\* Two oplogs contain the same operations: the same identities, each with
\* the same parents and the same payload.
SameOps(a, b) ==
  /\ Ids(a) = Ids(b)
  /\ \A id \in Ids(a) : OpAt(a, id) = OpAt(b, id) /\ ParentsOf(a, id) = ParentsOf(b, id)

\* The LVs no other LV descends from.
Childless(cg) ==
  {v \in 0..(nextLV(cg) - 1) :
     \A w \in 0..(nextLV(cg) - 1) : v \notin ParentLVs(cg, w)}

\* ----- C1 ----------------------------------------------------------------------------------
\* C1: convergence.  Whenever two peers' oplogs contain the same operations
\* (same identities, same parents, same payloads), whatever LV numbering
\* each gave them, checkout of both succeeds and returns the same snapshot.
C1_Convergence ==
  \A p, q \in Peers :
     SameOps(oplog[p], oplog[q]) =>
       Let(checkout(oplog[p]), LAMBDA bp :
       Let(checkout(oplog[q]), LAMBDA bq :
         bp.err = bq.err /\ (~bp.err => bp.snapshot = bq.snapshot)))

\* Two peers hold the same three operations under different LV numberings,
\* with concurrent operations among them, and both replay to the same text.
C1_Witness ==
  \E p, q \in Peers :
     /\ p # q
     /\ SameOps(oplog[p], oplog[q])
     /\ Cardinality(Ids(oplog[p])) = MaxOps
     /\ \E id \in Ids(oplog[p]) : LVOf(oplog[p], id) # LVOf(oplog[q], id)
     /\ \E id1, id2 \in Ids(oplog[p]) :
          /\ id1 # id2
          /\ id1 \notin ParentsOf(oplog[p], id2)
          /\ id2 \notin ParentsOf(oplog[p], id1)
          /\ OpAt(oplog[p], id1).type = "ins" /\ OpAt(oplog[p], id2).type = "ins"
          /\ OpAt(oplog[p], id1).pos = OpAt(oplog[p], id2).pos
     /\ Len(checkout(oplog[p]).snapshot) >= 2
     /\ checkout(oplog[p]).snapshot = checkout(oplog[q]).snapshot

\* ----- C10 ---------------------------------------------------------------------------------
\* C10: after any sequence of localInsert / localDelete (each adding one op),
\* pushOp and mergeOplogInto, every peer's cg.heads is sorted ascending with
\* no duplicate, no head is an ancestor of another, and the heads are the
\* LVs that have no descendant in the graph.
C10_Heads ==
  \A p \in Peers :
     LET hs == oplog[p].cg.heads
     IN /\ \A i, j \in 1..Len(hs) : i < j => hs[i] < hs[j]
        /\ \A i, j \in 1..Len(hs) : hs[i] \notin AncestorsOf(oplog[p].cg, hs[j])
        /\ {hs[i] : i \in 1..Len(hs)} = Childless(oplog[p].cg)

\* A peer whose graph has two heads after an op was added on top of one of
\* two concurrent ops (the add removed a parent from the heads).
C10_Witness ==
  \E p \in Peers :
     /\ Len(oplog[p].cg.heads) = 2
     /\ nextLV(oplog[p].cg) = MaxOps
     /\ 0 \notin {oplog[p].cg.heads[i] : i \in 1..Len(oplog[p].cg.heads)}

\* ----- C2 ----------------------------------------------------------------------------------
\* C2: when a branch produced by checkout is merged (mergeChangesIntoBranch
\* with the default mergeVersion) after its oplog grew, and the oplog
\* replays, the branch's snapshot is checkoutSimple(oplog) and its version
\* is the oplog's heads.
C2_MergeEqualsCheckout ==
  [][\A p \in BranchPeers :
       (pc[p] = "checkout" /\ pc'[p] = "merge"
          /\ Len(oplog'[p].ops) = nextLV(oplog'[p].cg)
          /\ ~checkout(oplog'[p]).err)
       => /\ ~branch'[p].err
          /\ branch'[p].snapshot = checkoutSimple(oplog'[p])
          /\ branch'[p].version = oplog'[p].cg.heads]_vars

\* ----- C3 ----------------------------------------------------------------------------------
\* C3: whenever canFastForward(cg, version, heads) holds for a branch whose
\* snapshot is the replay at its version, applying diff(version, heads).bOnly
\* positionally in LV order gives the snapshot of a full checkout.
C3_FastForwardEqualsCheckout ==
  \A p \in BranchPeers :
     (pc[p] = "checkout"
        /\ Len(oplog[p].ops) = nextLV(oplog[p].cg)
        /\ ~checkout(oplog[p]).err
        /\ canFastForward(oplog[p].cg, branch[p].version, oplog[p].cg.heads))
     => applyFastForward(branch[p], oplog[p], oplog[p].cg.heads).snapshot
          = checkoutSimple(oplog[p])

\* ----- C4 ----------------------------------------------------------------------------------
\* C4: on a document made by createDocument or openDocument and then edited
\* only by docInsert and docDelete, getContent(doc) is
\* checkoutSimple(doc.oplog) and doc.branch.version is doc.oplog.cg.heads.
C4_LocalEditsKeepSnapshot ==
  \A p \in Peers :
     pc[p] \in {"checkout", "edit"} =>
       Let(checkout(oplog[p]), LAMBDA full :
         /\ ~full.err
         /\ getContent(Doc(p)) = full.snapshot
         /\ branch[p].version = oplog[p].cg.heads)

\* ----- C5 ----------------------------------------------------------------------------------
\* C5: once every document holds the ops of every other document (received
\* through mergeRemote), all documents show the same content.
C5_DocumentsConverge ==
  (\A p, q \in Peers : Ids(oplog[p]) = Ids(oplog[q]))
    => \A p, q \in Peers : getContent(Doc(p)) = getContent(Doc(q))

\* ----- C6 ----------------------------------------------------------------------------------
\* C6: after mergeOplogInto(dest, src) every identity src knows is known to
\* dest, and dest stores for it, at its LV, the same op with the same
\* parents (as identities) as src.
C6_MergePreservesOps ==
  \A p, q \in Peers :
     p # q =>
       Let(mergeOplogInto(oplog[p], oplog[q]), LAMBDA dest :
         \A id \in Ids(oplog[q]) :
            /\ id \in Ids(dest)
            /\ OpAt(dest, id) = OpAt(oplog[q], id)
            /\ ParentsOf(dest, id) = ParentsOf(oplog[q], id))

\* ----- C7 ----------------------------------------------------------------------------------
\* C7: a second mergeOplogInto(X, Y) with the same Y leaves X.ops and X.cg
\* as the first call left them.
C7_MergeIdempotent ==
  \A p, q \in Peers :
     p # q =>
       Let(mergeOplogInto(oplog[p], oplog[q]), LAMBDA x :
         mergeOplogInto(x, oplog[q]) = x)

\* ----- C8 ----------------------------------------------------------------------------------
\* C8: for oplogs X, Y, Z, merging Y then Z into X gives an X equal to the
\* one merging Z then Y gives, read up to the numbering of LVs: the same
\* identities, each with the same parents and the same op stored at its LV.
C8_MergeCommutes ==
  \A x \in {createOpLog} \cup {oplog[p] : p \in Peers} :
     \A q, r \in Peers :
        SameOps(mergeOplogInto(mergeOplogInto(x, oplog[q]), oplog[r]),
                mergeOplogInto(mergeOplogInto(x, oplog[r]), oplog[q]))

\* ----- C9 ----------------------------------------------------------------------------------
\* C9: after every localInsert, localDelete, pushOp and mergeOplogInto,
\* ops.length is nextLV(cg) and ops[i] is the op whose LV is i: the op an
\* oplog stores for an identity is the op every other oplog stores for it.
C9_OpsIndexedByLV ==
  /\ \A p \in Peers : Len(oplog[p].ops) = nextLV(oplog[p].cg)
  /\ \A p, q \in Peers :
       \A id \in Ids(oplog[p]) \cap Ids(oplog[q]) :
          OpAt(oplog[p], id) = OpAt(oplog[q], id)

\* ----- C11 ---------------------------------------------------------------------------------
\* C11: after any sequence of localInsert, localDelete, pushOp and
\* mergeOplogInto, the entries of every causal graph cover [0, nextLV) in LV
\* order with no gap and no overlap (the first starts at 0, each next one
\* starts where the one before ends, every LV below the end is found in an
\* entry), and every parent of an entry is below the entry's first LV.
C11_EntriesContiguous ==
  \A p \in Peers :
    Let(oplog[p].cg.entries, LAMBDA es :
      /\ es # <<>> => es[1].version = 0
      /\ \A i \in 1..Len(es) : es[i].version <= es[i].vEnd
      /\ \A i \in 1..(Len(es) - 1) : es[i + 1].version = es[i].vEnd
      /\ \A v \in 0..(nextLV(oplog[p].cg) - 1) :
           Let(findEntryContainingRaw(oplog[p].cg, v), LAMBDA e :
             e # NoCGEntry /\ e.version <= v /\ v < e.vEnd)
      /\ \A i \in 1..Len(es) :
           \A j \in 1..Len(es[i].parents) : es[i].parents[j] < es[i].version)

\* A causal graph of three entries, one of them with two parents, in which
\* one agent's later seq has a smaller LV than its earlier seq.
C11_Witness ==
  \E p \in Peers :
    /\ Len(oplog[p].cg.entries) >= 3
    /\ \E i \in 1..Len(oplog[p].cg.entries) :
         Len(oplog[p].cg.entries[i].parents) = 2
    /\ \E a \in Agents :
         /\ hasVersion(oplog[p].cg, a, 0) /\ hasVersion(oplog[p].cg, a, 1)
         /\ rawToLV(oplog[p].cg, a, 1) < rawToLV(oplog[p].cg, a, 0)

Authored(id) == OpAt(oplog[id[1]], id)

\* The text both peers start from: the first b letters of peer 1.
CommonText(b) == SubSeq(Letters[1], 1, b)

\* The first seq and the number of ops of agent a's edit of the common text.
EditFrom(b, a) == IF a = 1 THEN b ELSE 0

EditLen(b, a) == nextSeqForAgent(oplog[a].cg, a) - EditFrom(b, a)

EditPos(b, a) == Authored(<<a, EditFrom(b, a)>>).pos

\* Agent a's edit is one localInsert of a run, one localDelete of a range.
IsInsertEdit(b, a) ==
  /\ EditLen(b, a) >= 1
  /\ \A k \in 0..(EditLen(b, a) - 1) :
       Authored(<<a, EditFrom(b, a) + k>>)
         = insOp(EditPos(b, a) + k, Letters[a][EditFrom(b, a) + k + 1])

IsDeleteEdit(b, a) ==
  /\ EditLen(b, a) >= 1
  /\ \A k \in 0..(EditLen(b, a) - 1) :
       Authored(<<a, EditFrom(b, a) + k>>) = delOp(EditPos(b, a))

\* The letters agent a's edit types, and the letters of the common text it
\* deletes.
InsertedBy(b, a) ==
  IF IsInsertEdit(b, a)
  THEN {Letters[a][EditFrom(b, a) + k] : k \in 1..EditLen(b, a)}
  ELSE {}

DeletedBy(b, a) ==
  IF IsDeleteEdit(b, a)
  THEN {CommonText(b)[EditPos(b, a) + k] : k \in 1..EditLen(b, a)}
  ELSE {}

\* Both peers have made their edit, each on the common text of b letters that
\* peer 1 typed at position 0.
SharedBase(b) ==
  /\ pc[1] = "run" /\ pc[2] = "run"
  /\ \A a \in Agents : IsInsertEdit(b, a) \/ IsDeleteEdit(b, a)
  /\ \A k \in 0..(b - 1) : Authored(<<1, k>>) = insOp(k, Letters[1][k + 1])
  /\ ParentsOf(oplog[1], <<1, b>>) = (IF b = 0 THEN {} ELSE {<<1, b - 1>>})
  /\ ParentsOf(oplog[2], <<2, 0>>) = ParentsOf(oplog[1], <<1, b>>)

\* How many times x occurs in s.
Count(s, x) == Cardinality({k \in 1..Len(s) : s[k] = x})

\* Both peers typed a run of at least two elements at the same position of
\* the common text of b letters.
ConcurrentRuns(b) ==
  /\ SharedBase(b)
  /\ \A a \in Agents : IsInsertEdit(b, a) /\ EditLen(b, a) >= 2
  /\ EditPos(b, 1) = EditPos(b, 2)

\* Peer p has merged: it knows every op of both peers.
KnowsAll(p) ==
  \A a \in Agents :
    nextSeqForAgent(oplog[p].cg, a) = nextSeqForAgent(oplog[a].cg, a)

\* The text after both runs: the common text with the whole run of agent 1
\* and then the whole run of agent 2 at the position they were typed at.
RunsInOrder(b) ==
  Let(EditPos(b, 1), LAMBDA pos :
    SubSeq(Letters[1], 1, pos)
      \o SubSeq(Letters[1], b + 1, nextSeqForAgent(oplog[1].cg, 1))
      \o SubSeq(Letters[2], 1, nextSeqForAgent(oplog[2].cg, 2))
      \o SubSeq(Letters[1], pos + 1, b))

\* ----- C13 ---------------------------------------------------------------------------------
\* C13: concurrent runs are not interleaved.  When two peers concurrently
\* insert runs of several elements at the same position of the text they
\* both start from, every peer that has merged the other's run checks out
\* the whole run of the smaller agent followed by the whole run of the
\* other, each in its own order.
C13_RunsNotInterleaved ==
  \A p \in Peers, b \in 0..MaxBase :
    (ConcurrentRuns(b) /\ KnowsAll(p)) =>
      Let(checkout(oplog[p]), LAMBDA doc :
        ~doc.err /\ doc.snapshot = RunsInOrder(b))

\* ----- C14 ---------------------------------------------------------------------------------
\* The second op of the agent that typed the first element, the first op of
\* the other agent.
After(b, a) == <<a, IF a = b THEN 1 ELSE 0>>

\* Peer p holds three ops: agent b's first element and, typed concurrently
\* right after it by agents 1 and 2, one element each.
ConcurrentPair(p, b) ==
  /\ Ids(oplog[p]) = {<<b, 0>>, After(b, 1), After(b, 2)}
  /\ Authored(<<b, 0>>) = insOp(0, Letters[b][1])
  /\ \A a \in Agents :
       /\ ParentsOf(oplog[p], After(b, a)) = {<<b, 0>>}
       /\ Authored(After(b, a)) = insOp(1, Letters[a][After(b, a)[2] + 1])

\* C14: tie-break by agent.  When two peers concurrently insert one element
\* each at the same position after the same left neighbour, every peer that
\* holds the three ops checks out the neighbour, then the element of the
\* smaller agent, then the element of the other, whichever agent typed the
\* neighbour and whatever LVs the ops have at that peer.
C14_TieBreakByAgent ==
  \A p \in Peers, b \in Agents :
    ConcurrentPair(p, b) =>
      Let(checkout(oplog[p]), LAMBDA doc :
        /\ ~doc.err
        /\ doc.snapshot = <<Letters[b][1], Letters[1][After(b, 1)[2] + 1],
                            Letters[2][After(b, 2)[2] + 1]>>)

\* ----- C15 ---------------------------------------------------------------------------------
\* C15: an insert concurrent with the deletion of its neighbours survives.
\* From a common text, if one peer inserts and the other concurrently
\* deletes elements of the text, every peer that has merged checks out a
\* text that holds each inserted element exactly once and none of the
\* deleted ones.
C15_InsertSurvivesDelete ==
  \A p \in Peers, b \in 1..MaxBase, i \in Agents, d \in Agents :
    (SharedBase(b) /\ KnowsAll(p) /\ IsInsertEdit(b, i) /\ IsDeleteEdit(b, d)) =>
      Let(checkout(oplog[p]), LAMBDA doc :
        /\ ~doc.err
        /\ \A x \in InsertedBy(b, i) : Count(doc.snapshot, x) = 1
        /\ \A x \in DeletedBy(b, d) : Count(doc.snapshot, x) = 0)

\* ----- C16 ---------------------------------------------------------------------------------
\* C16: when both peers concurrently delete the same element of the common
\* text, every peer that has merged checks out the text without the elements
\* either of them deleted and with every other element of it: the second
\* delete of an element removes nothing else.
C16_DoubleDelete ==
  \A p \in Peers, b \in 1..MaxBase :
    (SharedBase(b) /\ KnowsAll(p) /\ IsDeleteEdit(b, 1) /\ IsDeleteEdit(b, 2)
       /\ DeletedBy(b, 1) \cap DeletedBy(b, 2) # {}) =>
      Let(checkout(oplog[p]), LAMBDA doc :
        /\ ~doc.err
        /\ doc.snapshot = SelectSeq(CommonText(b),
             LAMBDA x : x \notin DeletedBy(b, 1) \cup DeletedBy(b, 2)))

\* ----- C17 ---------------------------------------------------------------------------------
\* C17: no element is lost or duplicated by a merge.  Every peer that has
\* merged checks out a text that holds exactly once each inserted element no
\* delete targets, and nothing else: its length is the number of ins ops
\* minus the number of distinct elements the del ops target.
C17_NoLossNoDuplicate ==
  \A p \in Peers, b \in 0..MaxBase :
    (SharedBase(b) /\ KnowsAll(p)) =>
      Let(checkout(oplog[p]), LAMBDA doc :
      Let(({CommonText(b)[k] : k \in 1..b}
             \cup InsertedBy(b, 1) \cup InsertedBy(b, 2))
            \ (DeletedBy(b, 1) \cup DeletedBy(b, 2)), LAMBDA kept :
        /\ ~doc.err
        /\ \A x \in kept : Count(doc.snapshot, x) = 1
        /\ Len(doc.snapshot) = Cardinality(kept)))

RawVersions == Agents \X (0..MaxOps)

ParentArgs == {<<>>} \cup {<<r>> : r \in RawVersions}

KnownParents(ol, parents) ==
  \A i \in 1..Len(parents) : hasVersion(ol.cg, parents[i][1], parents[i][2])

\* C19 as stated: pushOp with an (agent, seq) the oplog already knows
\* returns false and changes nothing of the oplog, for any parents, type,
\* pos and content passed.
C19_KnownIdIsNoOp ==
  \A p \in Peers : \A id \in Ids(oplog[p]), parents \in ParentArgs,
     type \in {"ins", "del"}, pos \in 0..1, content \in {"z", NoContent} :
    Let(pushOp(oplog[p], id, parents, type, pos, content), LAMBDA r :
      r.result = "false" /\ r.oplog = oplog[p])

\* C19, amended: the same for any parents the oplog knows, and any type, pos
\* and content.
C19_KnownIdKnownParentsIsNoOp ==
  \A p \in Peers : \A id \in Ids(oplog[p]), parents \in ParentArgs,
     type \in {"ins", "del"}, pos \in 0..1, content \in {"z", NoContent} :
    KnownParents(oplog[p], parents) =>
      Let(pushOp(oplog[p], id, parents, type, pos, content), LAMBDA r :
        r.result = "false" /\ r.oplog = oplog[p])

\* An oplog of two ops at which a known identity is pushed again with
\* another parent than its own and as an insert without content: the call
\* returns false.
C19_Witness ==
  \E p \in Peers : \E id \in Ids(oplog[p]), other \in Ids(oplog[p]) :
    /\ other # id
    /\ other \notin ParentsOf(oplog[p], id)
    /\ pushOp(oplog[p], id, <<other>>, "ins", 1, NoContent).result = "false"

\* ----- C20 ---------------------------------------------------------------------------------
\* C20: pushOp of type 'ins' without content, for an identity the oplog does
\* not know and parents it knows, fails with an error and changes no
\* persistent state: the oplog has no new CG entry, the same heads and
\* agentToVersion, and still ops.length = nextLV(cg).
C20_MissingContentChangesNothing ==
  \A p \in Peers : \A id \in RawVersions \ Ids(oplog[p]), parents \in ParentArgs :
    (KnownParents(oplog[p], parents) /\ Len(oplog[p].ops) = nextLV(oplog[p].cg)) =>
      Let(pushOp(oplog[p], id, parents, "ins", 0, NoContent), LAMBDA r :
        /\ r.result = "throw"
        /\ r.oplog.cg = oplog[p].cg
        /\ Len(r.oplog.ops) = nextLV(r.oplog.cg))

\* ----- C21 ---------------------------------------------------------------------------------
\* The arrays of LVs passed to the ancestry operations: up to two LVs out of
\* -1 .. nextLV, which holds the known LVs and one unknown LV on each side.
LVArgs(cg) ==
  Let((-1)..nextLV(cg), LAMBDA vs :
    {<<>>} \cup {<<v>> : v \in vs} \cup {<<v, w>> : v \in vs, w \in vs})

\* Some LV of the array is outside [0, nextLV).
HasUnknownLV(cg, f) == \E i \in 1..Len(f) : f[i] < 0 \/ f[i] >= nextLV(cg)

\* C21: diff, isFastForward, versionContainsLV, findDominators and
\* findConflicting raise an error, instead of returning a result, whenever
\* one of the LVs of their input frontiers is outside [0, nextLV).
C21_UnknownLVRaises ==
  \A p \in Peers :
    Let(oplog[p].cg, LAMBDA cg :
      /\ \A a \in LVArgs(cg) : \A b \in LVArgs(cg) :
           (HasUnknownLV(cg, a) \/ HasUnknownLV(cg, b)) =>
             /\ diff(cg, a, b).err
             /\ isFastForward3(cg, a, b) = "err"
             /\ findConflicting(cg, a, b).err
      /\ \A f \in LVArgs(cg) :
           HasUnknownLV(cg, f) =>
             /\ findDominatorsR(cg, f).err
             /\ \A target \in 0..(nextLV(cg) - 1) :
                  versionContainsLV3(cg, f, target) = "err")

\* ----- C22 ---------------------------------------------------------------------------------
\* The history of an oplog is linear: LV 0 has no parent and every other LV
\* has the previous LV as its only parent.
LinearHistory(ol) ==
  /\ Len(ol.ops) = nextLV(ol.cg)
  /\ \A v \in 0..(nextLV(ol.cg) - 1) :
       ParentLVs(ol.cg, v) = (IF v = 0 THEN {} ELSE {v - 1})

\* The replay state of checkout when it reaches LV lv: all the LVs below lv
\* applied.
CtxBefore(ol, lv) == traverseAndApply(createEditContext(Len(ol.ops)), ol, 0, lv)

\* The diff checkout computes for the k-th entry (from 0) of the oplog.
EntryDiff(ol, k) ==
  diff(ol.cg, CtxBefore(ol, At(ol.cg.entries, k).version).curVersion,
       At(ol.cg.entries, k).parents)

\* integrate passes its first test and scans when the insert lv is applied:
\* the item at the cursor exists and is NotYetInserted.
IntegrateScans(ol, lv) ==
  Let(CtxBefore(ol, lv), LAMBDA ctx :
    Let(findByCurPos(ctx, At(ol.ops, lv).pos), LAMBDA cursor :
      /\ cursor.idx < Len(ctx.items)
      /\ At(ctx.items, cursor.idx).curState = NYI))

\* C22: for an oplog with a linear history, built by localInsert and
\* localDelete in sequence, checkout succeeds, the diff of every entry is
\* empty (neither retreat1 nor advance1 runs), and integrate returns at its
\* first test for every insert (no item is NotYetInserted at the cursor).
C22_LinearNeedsNoIntegration ==
  LinearHistory(oplog[1]) =>
    /\ ~checkout(oplog[1]).err
    /\ \A k \in 0..(Len(oplog[1].cg.entries) - 1) :
         At(oplog[1].cg.entries, k).version < At(oplog[1].cg.entries, k).vEnd =>
           EntryDiff(oplog[1], k) = [aOnly |-> <<>>, bOnly |-> <<>>, err |-> FALSE]
    /\ \A lv \in 0..(nextLV(oplog[1].cg) - 1) :
         /\ ~CtxBefore(oplog[1], lv).err
         /\ \A i \in 1..Len(CtxBefore(oplog[1], lv).items) :
              CtxBefore(oplog[1], lv).items[i].curState # NYI
         /\ At(oplog[1].ops, lv).type = "ins" => ~IntegrateScans(oplog[1], lv)

\* A linear history of three entries by two agents, with an insert in the
\* middle of the text and a delete, replayed by checkout.
C22_Witness ==
  /\ LinearHistory(oplog[1])
  /\ Len(oplog[1].cg.entries) >= 3
  /\ \E lv \in 1..(nextLV(oplog[1].cg) - 1) :
       /\ At(oplog[1].ops, lv).type = "ins"
       /\ At(oplog[1].ops, lv).pos > 0
       /\ At(oplog[1].ops, lv).pos < Len(CtxBefore(oplog[1], lv).snapshot)
  /\ \E lv \in 1..(nextLV(oplog[1].cg) - 1) : At(oplog[1].ops, lv).type = "del"
  /\ ~checkout(oplog[1]).err

\* ----- C23 ---------------------------------------------------------------------------------
\* C23: after every step of the same sequence of inserts, deletes and remote
\* merges applied to a TextDocument and to a Document, the two calls have
\* both thrown or both returned, getTextDocText(textDoc) is getText(doc),
\* the versions are equal and so are the two oplogs.
C23_TextDocumentIsDocument ==
  /\ branch[Role.text].err = branch[Role.doc].err
  /\ oplog[Role.text] = oplog[Role.doc]
  /\ ~branch[Role.text].err =>
       /\ getTextDocText(TextDoc) = getText(Doc(Role.doc), pc[Role.doc])
       /\ TextDoc.version = branch[Role.doc].version

\* The two documents after a merge of concurrent edits (two heads), with
\* ops of both agents, a delete among them and a text that is not empty;
\* the Document has dropped its rope.
C23_Witness ==
  /\ NoThrowYet
  /\ Len(TextDoc.version) = 2
  /\ pc[Role.doc].rope = NoRope
  /\ Len(getTextDocText(TextDoc)) >= 1
  /\ getTextDocText(TextDoc) = getText(Doc(Role.doc), pc[Role.doc])
  /\ \E lv \in 0..(Len(oplog[Role.text].ops) - 1) :
       At(oplog[Role.text].ops, lv).type = "del"
  /\ \A a \in Agents : nextSeqForAgent(oplog[Role.text].cg, a) > 0

\* ----- C24 ---------------------------------------------------------------------------------
\* The identities an oplog knows that are ancestors of identity id in it.
AncestorIds(ol, id) ==
  {lvToRaw(ol.cg, v) : v \in AncestorsOf(ol.cg, LVOf(ol, id))}

\* Every op an oplog holds has there the parents its author gave it, and
\* each of its ancestors is present with a smaller LV and is contained in
\* the version made of the op's LV.
OrderKept(p) ==
  \A id \in Ids(oplog[p]) :
    /\ ParentsOf(oplog[p], id) = ParentsOf(oplog[id[1]], id)
    /\ AncestorIds(oplog[p], id) = AncestorIds(oplog[id[1]], id)
    /\ \A v \in AncestorsOf(oplog[p].cg, LVOf(oplog[p], id)) :
         /\ v >= 0 /\ v < LVOf(oplog[p], id)
         /\ versionContainsLV3(oplog[p].cg, <<LVOf(oplog[p], id)>>, v) = "true"

\* The op a local edit of peer p would make now has the heads of p as its
\* parents.
EditParentsAreHeads(p) ==
  nextSeqForAgent(oplog[p].cg, p) < MaxSeq =>
    \A ol \in {localInsert(oplog[p], p, 0, <<NextLetter(p)>>),
                localDelete(oplog[p], p, 0, 1)} :
      ParentsOf(ol, <<p, nextSeqForAgent(oplog[p].cg, p)>>)
        = {lvToRaw(oplog[p].cg, oplog[p].cg.heads[i]) :
             i \in 1..Len(oplog[p].cg.heads)}

\* C24: an op made by a local edit has as parents the heads its peer has at
\* that moment (the ops merged before are its ancestors), and in every oplog
\* that holds it, after any merge, it keeps these (agent, seq) parents, each
\* ancestor is present with a smaller LV and versionContainsLV of the op's
\* LV and the ancestor's LV holds.
C24_CausalOrder ==
  \A p \in Peers : EditParentsAreHeads(p) /\ OrderKept(p)

\* Peer 1 holds an op q of agent 2 whose parent is the second op p2 of agent
\* 1, itself after p1: peer 2 merged p1 and p2, made q, and peer 1 merged q.
C24_Witness ==
  /\ Ids(oplog[1]) = {<<1, 0>>, <<1, 1>>, <<2, 0>>}
  /\ ParentsOf(oplog[1], <<2, 0>>) = {<<1, 1>>}
  /\ AncestorIds(oplog[1], <<2, 0>>) = {<<1, 0>>, <<1, 1>>}
  /\ OrderKept(1)

\* ----- C25 ----------------------------------------------------------------------
\* The causal graph an empty one becomes when the whole of cg is serialized
\* and merged into it: [cg, range, err].
RoundTrip(cg) ==
  Let(diff(cg, <<>>, cg.heads), LAMBDA d :
    IF d.err THEN [cg |-> createCG, range |-> <<0, 0>>, err |-> TRUE]
    ELSE mergePartialVersions(createCG, serializeDiff(cg, d.bOnly)))

HistoryOf(cg, version) ==
  UNION {{version[i]} \cup AncestorsOf(cg, version[i]) : i \in 1..Len(version)}

\* The oplog that holds exactly the ops of ol with an LV in S (S closed under
\* ancestors), delivered in ol's order from LV lv on.
RECURSIVE RestrictTo(_, _, _, _)
RestrictTo(ol, S, lv, acc) ==
  IF lv >= nextLV(ol.cg) THEN acc
  ELSE RestrictTo(ol, S, lv + 1,
         IF lv \in S
         THEN pushOp(acc, lvToRaw(ol.cg, lv), rawParentsOf(ol.cg, lv),
                     At(ol.ops, lv).type, At(ol.ops, lv).pos,
                     At(ol.ops, lv).content).oplog
         ELSE acc)

\* The replay of exactly the ops in the history of a version.
ReplayOf(ol, version) ==
  checkout(RestrictTo(ol, HistoryOf(ol.cg, version), 0, createOpLog))

\* The branch holds ops that mergeVersion does not.
BranchHasOwnOps(cg, version, mergeVersion) ==
  HistoryOf(cg, version) \ HistoryOf(cg, mergeVersion) # {}

\* The merge of mergeVersion into branch b does what C26 says.
MergesExactly(b, ol, mergeVersion) ==
  Let(mergeChangesIntoBranch(b, ol, mergeVersion), LAMBDA r :
  Let(findConflicting(ol.cg, b.version, mergeVersion), LAMBDA fc :
    /\ ~r.err /\ ~fc.err
    /\ isFastForward3(ol.cg, b.version, mergeVersion) = "false"
    /\ r.snapshot = ReplayOf(ol, b.version \o mergeVersion).snapshot
    /\ mcbReplayConflicts(b, ol, fc).snapshot = b.snapshot
    /\ ~mcbReplayConflicts(b, ol, fc).err
    /\ r.version = findDominators(ol.cg, b.version \o mergeVersion)
    /\ HistoryOf(ol.cg, r.version)
         = HistoryOf(ol.cg, b.version) \cup HistoryOf(ol.cg, mergeVersion)))

\* C26: for a branch that is the checkout of an earlier state of the oplog,
\* or the result of an earlier merge on the conflict path, and every frontier mergeVersion of the oplog such that the branch holds ops
\* that mergeVersion does not, mergeChangesIntoBranch(branch, oplog,
\* mergeVersion) takes the conflict path, leaves as snapshot the replay of
\* exactly the ops in the history of branch.version and mergeVersion, does
\* not modify the snapshot while it replays conflictOps, and sets
\* branch.version to findDominators(branch.version ++ mergeVersion).
C26_MergeUpToVersion ==
  \A p \in BranchPeers :
    pc[p] \in {"checkout", "replay"} =>
      \A mergeVersion \in Frontiers(oplog[p].cg) :
        BranchHasOwnOps(oplog[p].cg, branch[p].version, mergeVersion)
          => MergesExactly(branch[p], oplog[p], mergeVersion)

\* The branch was the checkout of LV 0 and has been merged, on the conflict
\* path, with the concurrent LV 2: its version is [0, 2], which is not the
\* heads of the oplog, LV 1 is not in its history and the snapshot holds the
\* two inserted elements.
C26_Witness ==
  \E p \in BranchPeers :
    /\ pc[p] = "replay"
    /\ ~branch[p].err
    /\ branch[p].version = <<0, 2>>
    /\ HistoryOf(oplog[p].cg, branch[p].version) = {0, 2}
    /\ branch[p].version # oplog[p].cg.heads
    /\ Len(branch[p].snapshot) = 2

\* ----- C27 ----------------------------------------------------------------------
\* The arrays of known LVs passed as versions: up to two LVs, in any order,
\* an LV beside its ancestor and repeated LVs included.
KnownArgs(cg) ==
  Let(0..(nextLV(cg) - 1), LAMBDA vs :
    {<<>>} \cup {<<v>> : v \in vs} \cup {<<v, w>> : v \in vs, w \in vs})

\* The LVs of a list of ranges.
RangeSet(ranges) ==
  UNION {ranges[i][1]..(ranges[i][2] - 1) : i \in 1..Len(ranges)}

\* The ranges are not empty, ascending, disjoint and not adjacent.
AscendingCoalesced(ranges) ==
  /\ \A i \in 1..Len(ranges) : ranges[i][1] < ranges[i][2]
  /\ \A i \in 1..(Len(ranges) - 1) : ranges[i][2] < ranges[i + 1][1]

\* C27: for versions a and b of known LVs, diff(cg, a, b) returns as aOnly
\* exactly the LVs in the history of a and not in the history of b, as bOnly
\* exactly the LVs in the history of b and not in the history of a, and both
\* lists are ascending, with disjoint ranges and adjacent ranges coalesced.
C27_DiffExact ==
  \A p \in Peers :
    Let(oplog[p].cg, LAMBDA cg :
      \A a \in KnownArgs(cg) : \A b \in KnownArgs(cg) :
        Let(diff(cg, a, b), LAMBDA d :
          /\ ~d.err
          /\ RangeSet(d.aOnly) = HistoryOf(cg, a) \ HistoryOf(cg, b)
          /\ RangeSet(d.bOnly) = HistoryOf(cg, b) \ HistoryOf(cg, a)
          /\ AscendingCoalesced(d.aOnly)
          /\ AscendingCoalesced(d.bOnly)))

\* A causal graph with three entries, two of them concurrent: some diff
\* returns a non-empty aOnly and a bOnly of two separate ranges, and some
\* diff returns one range that spans two entries.
C27_Witness ==
  Let(oplog[1].cg, LAMBDA cg :
    /\ Len(cg.entries) = 3
    /\ \E a \in KnownArgs(cg), b \in KnownArgs(cg) :
         Let(diff(cg, a, b), LAMBDA d :
           /\ Len(d.aOnly) = 1 /\ Len(d.bOnly) = 2
           /\ RangeSet(d.aOnly) = HistoryOf(cg, a) \ HistoryOf(cg, b)
           /\ RangeSet(d.bOnly) = HistoryOf(cg, b) \ HistoryOf(cg, a))
    /\ \E b \in KnownArgs(cg) :
         Let(diff(cg, <<>>, b), LAMBDA d :
           /\ Len(d.bOnly) = 1
           /\ d.bOnly[1][1] < cg.entries[2].version
           /\ d.bOnly[1][2] > cg.entries[2].version))

\* ----- C28 ----------------------------------------------------------------------
\* C28: for any two known LVs a < b of a causal graph,
\* versionContainsLV(cg, [b], a) is true if and only if
\* diff(cg, [a], [b]).aOnly is empty, and both if and only if a is an
\* ancestor of b.
C28_ContainsIffNoAOnly ==
  Let(oplog[1].cg, LAMBDA cg :
    \A b \in 0..(nextLV(cg) - 1) : \A a \in 0..(b - 1) :
      /\ versionContainsLV3(cg, <<b>>, a) \in {"true", "false"}
      /\ ~diff(cg, <<a>>, <<b>>).err
      /\ versionContainsLV(cg, <<b>>, a) <=> diff(cg, <<a>>, <<b>>).aOnly = <<>>
      /\ versionContainsLV(cg, <<b>>, a) <=> a \in AncestorsOf(cg, b))

\* A causal graph of four LVs in which LV 0 is an ancestor of LV 3 through
\* another entry and not its parent, and LV 1 is concurrent with LV 3: both
\* functions say yes for (0, 3) and no for (1, 3).
C28_Witness ==
  Let(oplog[1].cg, LAMBDA cg :
    /\ nextLV(cg) = 4
    /\ 0 \notin ParentLVs(cg, 3)
    /\ findEntryContainingRaw(cg, 0) # findEntryContainingRaw(cg, 3)
    /\ versionContainsLV(cg, <<3>>, 0)
    /\ diff(cg, <<0>>, <<3>>).aOnly = <<>>
    /\ ~versionContainsLV(cg, <<3>>, 1)
    /\ diff(cg, <<1>>, <<3>>).aOnly = <<<<1, 2>>>>)

\* ----- C29 ----------------------------------------------------------------------
\* The arrays of one to three known LVs, in any order, repeats included, and
\* the empty array.
VersionArgs(cg) ==
  Let(0..(nextLV(cg) - 1), LAMBDA vs :
    KnownArgs(cg) \cup {<<u, v, w>> : u \in vs, v \in vs, w \in vs})

\* The members of an array.
Members(versions) == {versions[i] : i \in 1..Len(versions)}

\* The members of versions that are not ancestors of another member.
DominatorsOf(cg, versions) ==
  {v \in Members(versions) :
     \A w \in Members(versions) : v \notin AncestorsOf(cg, w)}

\* C29: for every array of known LVs (length 0 to 3, repeated values
\* included) findDominators returns, ascending and without duplicates,
\* exactly the members that are not ancestors of another member, and every
\* member is in the result or an ancestor of a member of the result.
C29_Dominators ==
  Let(oplog[1].cg, LAMBDA cg :
    \A versions \in VersionArgs(cg) :
      Let(findDominatorsR(cg, versions), LAMBDA r :
        /\ ~r.err
        /\ r.result = AsFrontier(DominatorsOf(cg, versions))
        /\ \A v \in Members(versions) :
             \/ Includes(r.result, v)
             \/ \E i \in 1..Len(r.result) : v \in AncestorsOf(cg, r.result[i])))

\* A causal graph of four LVs with concurrent versions: an array of three
\* with a repeated value has two dominators, and an array of three distinct
\* versions has two dominators and one member that is an ancestor of one of
\* them.
C29_Witness ==
  Let(oplog[1].cg, LAMBDA cg :
    /\ nextLV(cg) = 4
    /\ \E v \in 0..3, w \in 0..3 :
         /\ v < w
         /\ findDominators(cg, <<w, v, w>>) = <<v, w>>
    /\ \E versions \in VersionArgs(cg) :
         /\ Cardinality(Members(versions)) = 3
         /\ Len(findDominators(cg, versions)) = 2
         /\ \E v \in Members(versions) :
              /\ ~Includes(findDominators(cg, versions), v)
              /\ \E w \in Members(versions) : v \in AncestorsOf(cg, w))

\* ----- C30 ----------------------------------------------------------------------
\* The LVs of the ranges visited with a flag.
VisitedWith(visits, flag) ==
  UNION {visits[i].range[1]..(visits[i].range[2] - 1) :
           i \in {j \in 1..Len(visits) : visits[j].flag = flag}}

\* The visited ranges are not empty and each lies below the one before.
VisitsDescend(visits) ==
  /\ \A i \in 1..Len(visits) : visits[i].range[1] < visits[i].range[2]
  /\ \A i \in 1..(Len(visits) - 1) : visits[i + 1].range[2] <= visits[i].range[1]

\* The common-ancestor frontier of a and b: the LVs of both histories none
\* of which is an ancestor of another.
CommonAncestor(cg, a, b) ==
  Let(HistoryOf(cg, a) \cap HistoryOf(cg, b), LAMBDA both :
    AsFrontier({v \in both : \A w \in both : v \notin AncestorsOf(cg, w)}))

\* C30 as stated: for every pair of frontiers a, b of a causal graph, the
\* empty one included, findConflicting returns; it has called visit on non-empty
\* ranges each below the one before; the ranges visited with OnlyA hold the
\* LVs of diff(a, b).aOnly and those visited with OnlyB the LVs of
\* diff(a, b).bOnly; the value returned is the common-ancestor frontier of a
\* and b, [] when they share no history.
C30_FindConflicting ==
  Let(oplog[1].cg, LAMBDA cg :
    \A a \in Frontiers(cg) : \A b \in Frontiers(cg) :
      Let(findConflicting(cg, a, b), LAMBDA fc :
        /\ ~fc.err
        /\ VisitsDescend(fc.visits)
        /\ VisitedWith(fc.visits, DiffFlagOnlyA) = RangeSet(diff(cg, a, b).aOnly)
        /\ VisitedWith(fc.visits, DiffFlagOnlyB) = RangeSet(diff(cg, a, b).bOnly)
        /\ fc.result = CommonAncestor(cg, a, b)))

\* C30, amended: the first three parts as stated; the value returned is a
\* frontier (ascending, no member an ancestor of another) whose history lies
\* in the histories of both a and b, the ranges visited with Shared hold
\* exactly the common LVs outside that history, and so the value is the
\* common-ancestor frontier of a and b whenever no range is visited with
\* Shared, and [] when a and b share no history.
C30_FindConflictingBelowShared ==
  Let(oplog[1].cg, LAMBDA cg :
    \A a \in Frontiers(cg) : \A b \in Frontiers(cg) :
      Let(findConflicting(cg, a, b), LAMBDA fc :
        /\ ~fc.err
        /\ VisitsDescend(fc.visits)
        /\ VisitedWith(fc.visits, DiffFlagOnlyA) = RangeSet(diff(cg, a, b).aOnly)
        /\ VisitedWith(fc.visits, DiffFlagOnlyB) = RangeSet(diff(cg, a, b).bOnly)
        /\ fc.result = AsFrontier(DominatorsOf(cg, fc.result))
        /\ HistoryOf(cg, fc.result) \subseteq HistoryOf(cg, a) \cap HistoryOf(cg, b)
        /\ VisitedWith(fc.visits, DiffFlagShared)
             = (HistoryOf(cg, a) \cap HistoryOf(cg, b)) \ HistoryOf(cg, fc.result)
        /\ VisitedWith(fc.visits, DiffFlagShared) = {}
             => fc.result = CommonAncestor(cg, a, b)
        /\ HistoryOf(cg, a) \cap HistoryOf(cg, b) = {} => fc.result = <<>>))

\* A causal graph with a shared version 0 and the concurrent versions 1 and
\* 2 above it: findConflicting([1], [2]) visits [2,3) as OnlyB and [1,2) as
\* OnlyA and returns [0]; findConflicting([1], [1, 2]) visits [1,2) as Shared
\* and returns [0], below the common-ancestor frontier [1].
C30_Witness ==
  Let(oplog[1].cg, LAMBDA cg :
    /\ nextLV(cg) >= 3
    /\ CommonAncestor(cg, <<1>>, <<2>>) = <<0>>
    /\ findConflicting(cg, <<1>>, <<2>>).result = <<0>>
    /\ findConflicting(cg, <<1>>, <<2>>).visits
         = <<[range |-> <<2, 3>>, flag |-> DiffFlagOnlyB],
             [range |-> <<1, 2>>, flag |-> DiffFlagOnlyA]>>
    /\ CommonAncestor(cg, <<1>>, <<1, 2>>) = <<1>>
    /\ findConflicting(cg, <<1>>, <<1, 2>>).result = <<0>>
    /\ VisitedWith(findConflicting(cg, <<1>>, <<1, 2>>).visits, DiffFlagShared) = {1})

\* ----- C31 ----------------------------------------------------------------------
\* The LVs of cg whose (agent, seq) the other causal graph knows.
KnownToOther(cg, other) ==
  {v \in 0..(nextLV(cg) - 1) :
     hasVersion(other, lvToRaw(cg, v)[1], lvToRaw(cg, v)[2])}

\* The (agent, seq) pairs the other causal graph knows and cg does not.
UnknownToCG(cg, other) ==
  {id \in Agents \X (0..MaxSeq) :
     hasVersion(other, id[1], id[2]) /\ ~hasVersion(cg, id[1], id[2])}

\* The (agent, seq) pairs of a remainder.
RemainderIds(remainder) ==
  UNION {{<<remainder[i].agent, seq>> :
            seq \in remainder[i].startSeq..(remainder[i].endSeq - 1)} :
         i \in 1..Len(remainder)}

\* C31: for the causal graphs of any two peers,
\* intersectWithSummary(cg, summarizeVersion(other)) returns as first
\* component the dominators of the LVs of cg whose (agent, seq) other knows,
\* and as second component the seq ranges of the summary that cg does not
\* know (none, which stands for null, when cg knows them all).
C31_IntersectWithSummary ==
  \A p, q \in Peers :
    Let(intersectWithSummary(oplog[p].cg, summarizeVersion(oplog[q].cg), <<>>),
        LAMBDA r :
          /\ r.common = AsFrontier(DominatorsOf(oplog[p].cg,
                          AsFrontier(KnownToOther(oplog[p].cg, oplog[q].cg))))
          /\ RemainderIds(r.remainder) = UnknownToCG(oplog[p].cg, oplog[q].cg))

\* ----- C32 ----------------------------------------------------------------------
\* The first seq from seqStart on, below seqEnd, that cg does not know for
\* the agent; seqEnd when it knows them all.
RECURSIVE FirstUnknownSeq(_, _, _, _)
FirstUnknownSeq(cg, agent, seqStart, seqEnd) ==
  IF seqStart >= seqEnd \/ ~hasVersion(cg, agent, seqStart) THEN seqStart
  ELSE FirstUnknownSeq(cg, agent, seqStart + 1, seqEnd)

\* r.cg is cg with exactly the seqs [k, seqEnd) of the agent appended as new
\* LVs, the first with the given parents and each other with the LV before.
AppendsRun(cg, r, agent, k, seqEnd, parents) ==
  /\ ~r.err
  /\ r.entry # NoCGEntry
  /\ r.entry.version = nextLV(cg) /\ r.entry.vEnd = nextLV(cg) + (seqEnd - k)
  /\ nextLV(r.cg) = nextLV(cg) + (seqEnd - k)
  /\ \A v \in 0..(nextLV(cg) - 1) :
       /\ lvToRaw(r.cg, v) = lvToRaw(cg, v)
       /\ ParentLVs(r.cg, v) = ParentLVs(cg, v)
  /\ \A i \in 0..(seqEnd - k - 1) :
       /\ lvToRaw(r.cg, nextLV(cg) + i) = <<agent, k + i>>
       /\ ParentLVs(r.cg, nextLV(cg) + i)
            = IF i = 0 THEN Members(parents) ELSE {nextLV(cg) + i - 1}

\* The ranges and parents add is called with: ranges of one to three seqs
\* that begin at a seq the agent has, or at most two beyond, and no parent
\* or one known LV.
AddRanges(cg, agent) ==
  {<<seqStart, seqEnd>> \in (0..(MaxSeq - 1)) \X (1..MaxSeq) :
     /\ seqStart < seqEnd /\ seqEnd <= seqStart + 3
     /\ seqStart <= nextSeqForAgent(cg, agent) + 1}

\* C32: add(cg, agent, seqStart, seqEnd, parents) on the causal graph of a
\* peer and a range of at least one seq.  When the agent's seqs [seqStart, seqEnd) are all known it
\* returns null and cg is unchanged.  When seqStart is known and k is the
\* first unknown seq of the range, it appends exactly seqEnd - k LVs, for
\* the seqs [k, seqEnd), the first with the LV of (agent, k - 1) as its
\* parent.  When seqStart is not known it appends seqEnd - seqStart LVs with
\* the given parents.
C32_AddSkipsKnownPrefix ==
  \A agent \in Agents :
    Let(oplog[1].cg, LAMBDA cg :
      \A range \in AddRanges(cg, agent) : \A parents \in ParentChoices(cg) :
        Let(add(cg, agent, range[1], range[2], parents), LAMBDA r :
        Let(FirstUnknownSeq(cg, agent, range[1], range[2]), LAMBDA k :
          IF k = range[2]
          THEN ~r.err /\ r.entry = NoCGEntry /\ r.cg = cg
          ELSE IF k > range[1]
          THEN AppendsRun(cg, r, agent, k, range[2], <<rawToLV(cg, agent, k - 1)>>)
          ELSE AppendsRun(cg, r, agent, k, range[2], parents))))

\* The peer knows seqs 0 and 2 of an agent and not seq 1.  add of the seqs
\* 0 to 2 with no parents appends seq 1 and, again, seq 2 after the known
\* seq 0; add of seq 0 alone returns null; add of seqs 1 and 2 of the other
\* agent, of whom the peer knows seq 0, appends seq 1 and seq 2.
C32_Witness ==
  \E agent \in Agents, other \in Agents :
    Let(oplog[1].cg, LAMBDA cg :
      /\ agent # other
      /\ hasVersion(cg, agent, 0) /\ ~hasVersion(cg, agent, 1)
      /\ hasVersion(cg, agent, 2)
      /\ nextLV(add(cg, agent, 0, 3, <<>>).cg) = nextLV(cg) + 2
      /\ add(cg, agent, 0, 3, <<>>).entry.parents = <<rawToLV(cg, agent, 0)>>
      /\ add(cg, agent, 0, 1, <<>>).entry = NoCGEntry
      /\ ~hasVersion(cg, other, 0)
      /\ add(cg, other, 0, 2, cg.heads).entry.parents = cg.heads
      /\ nextLV(add(cg, other, 0, 2, cg.heads).cg) = nextLV(cg) + 2)

\* ----- C33 ----------------------------------------------------------------------
\* The replay state of checkout at the moment apply1(lv) runs: the LVs below
\* lv applied, then the retreat and advance loops toward the parents of lv.
CtxAtApply(ol, lv) ==
  prepareVersion(CtxBefore(ol, lv), ol, AsFrontier(ParentLVs(ol.cg, lv)))

\* The elements of the items whose curState is Inserted, in item order.
RECURSIVE PreparedDoc(_, _)
PreparedDoc(items, ol) ==
  IF items = <<>> THEN <<>>
  ELSE (IF Head(items).curState = INS
        THEN <<At(ol.ops, Head(items).opId).content>> ELSE <<>>)
         \o PreparedDoc(Tail(items), ol)

\* C33: during the traverseAndApply of a checkout, at the moment apply1(lv)
\* runs no error has been raised and the items whose curState is Inserted,
\* in item order, are the document at the parent version of lv (the replay
\* of the ancestors of lv only); when traverseAndApply returns,
\* ctx.curVersion is [nextLV - 1], the last LV applied.
C33_PrepareVersion ==
  \A p \in Peers :
    Let(oplog[p], LAMBDA ol :
      /\ \A lv \in 0..(nextLV(ol.cg) - 1) :
           Let(CtxAtApply(ol, lv), LAMBDA ctx :
             /\ ~ctx.err
             /\ PreparedDoc(ctx.items, ol)
                  = ReplayOf(ol, AsFrontier(ParentLVs(ol.cg, lv))).snapshot)
      /\ nextLV(ol.cg) > 0 =>
           CtxBefore(ol, nextLV(ol.cg)).curVersion = <<nextLV(ol.cg) - 1>>)

\* An oplog of three ops: LV 0 inserts, LV 1 deletes that element and LV 2,
\* concurrent with LV 1, inserts after it.  When apply1(2) runs LV 1 has been
\* retreated: the element of LV 0 is Inserted again and is the whole
\* prepared document, while the snapshot is empty.
C33_Witness ==
  \E p \in Peers :
    Let(oplog[p], LAMBDA ol :
      /\ nextLV(ol.cg) = 3
      /\ At(ol.ops, 1).type = "del" /\ At(ol.ops, 2).type = "ins"
      /\ ParentLVs(ol.cg, 2) = {0}
      /\ CtxBefore(ol, 2).items[1].curState = DEL
      /\ CtxAtApply(ol, 2).items[1].curState = INS
      /\ CtxAtApply(ol, 2).items[1].endState = DEL
      /\ PreparedDoc(CtxAtApply(ol, 2).items, ol) = <<At(ol.ops, 0).content>>
      /\ CtxAtApply(ol, 2).snapshot = <<>>)

\* ----- replay of concurrent histories ------------------------------------------
\* Agent a edits the document at a version of peer 1's oplog, any frontier
\* of its causal graph, in its own view of that version (an insert at any
\* position of it, or a delete of any element of it), and the op reaches
\* the oplog through pushOp.
PushEdit(a) ==
  /\ nextLV(oplog[1].cg) < MaxReplayOps
  /\ \E parents \in Frontiers(oplog[1].cg) :
       \E doc \in {ReplayOf(oplog[1], parents)} :
         /\ ~doc.err
         /\ \/ \E pos \in 0..Len(doc.snapshot) :
                 oplog' = [oplog EXCEPT ![1] =
                   pushOp(@, <<a, nextSeqForAgent(@.cg, a)>>,
                          lvToRawList(@.cg, parents), "ins", pos,
                          Letters[a][nextSeqForAgent(@.cg, a) + 1]).oplog]
            \/ \E pos \in 0..(Len(doc.snapshot) - 1) :
                 oplog' = [oplog EXCEPT ![1] =
                   pushOp(@, <<a, nextSeqForAgent(@.cg, a)>>,
                          lvToRawList(@.cg, parents), "del", pos,
                          NoContent).oplog]
  /\ UNCHANGED <<branch, pc>>

NextReplay == \E a \in Agents : PushEdit(a)

SpecReplay == Init /\ [][NextReplay]_vars

\* ----- C34 ----------------------------------------------------------------------
\* The points of the replay of ol between the end of apply1(lv - 1) and the
\* start of apply1(lv): the first i steps of the retreat loop and the first
\* j steps of the advance loop done.  [ctx, prep] is the replay state with
\* the LVs of its prepare version: the history of ctx.curVersion, less the
\* LVs retreated, plus the LVs advanced.  lv = nextLV is the end of the
\* replay.
SeqSet(list) == {list[i] : i \in 1..Len(list)}

ReplayPoints(ol, lv) ==
  Let(CtxBefore(ol, lv), LAMBDA c0 :
    IF lv = nextLV(ol.cg)
    THEN {[ctx |-> c0, prep |-> HistoryOf(ol.cg, c0.curVersion)]}
    ELSE
  Let(diff(ol.cg, c0.curVersion, AsFrontier(ParentLVs(ol.cg, lv))), LAMBDA d :
  Let(Reverse(rangeLVs(d.aOnly)), LAMBDA retreat :
  Let(rangeLVs(d.bOnly), LAMBDA advance :
    {[ctx |-> advanceAll(retreatAll(c0, ol, SubSeq(retreat, 1, ij[1])),
                         ol, SubSeq(advance, 1, ij[2])),
      prep |-> (HistoryOf(ol.cg, c0.curVersion) \ SeqSet(SubSeq(retreat, 1, ij[1])))
                 \cup SeqSet(SubSeq(advance, 1, ij[2]))] :
       ij \in {x \in (0..Len(retreat)) \X (0..Len(advance)) :
                 x[2] > 0 => x[1] = Len(retreat)}}))))

\* The delete ops of S that target the item of opId, by ctx.delTargets.
DeletesOf(ctx, ol, S, opId) ==
  {d \in S : At(ol.ops, d).type = "del" /\ At(ctx.delTargets, d) = opId}

\* C34: at every point of the replay of a checkout (after each apply1 and
\* after each step of the retreat and advance loops) no error has been
\* raised and, for every item, curState is 0 when its insert is not in the
\* prepare version and otherwise 1 + the number of deletes of the prepare
\* version that target it, so curState >= 2 while any of them is in the
\* prepare version; endState is Deleted when a delete targeting the item has
\* been applied and Inserted otherwise.
C34_DeletedIsCounter ==
  Let(oplog[1], LAMBDA ol :
    \A lv \in 0..nextLV(ol.cg) : \A pt \in ReplayPoints(ol, lv) :
      /\ ~pt.ctx.err
      /\ \A k \in 1..Len(pt.ctx.items) :
           Let(pt.ctx.items[k], LAMBDA item :
             /\ item.curState
                  = (IF item.opId \in pt.prep
                     THEN 1 + Cardinality(DeletesOf(pt.ctx, ol, pt.prep, item.opId))
                     ELSE 0)
             /\ DeletesOf(pt.ctx, ol, pt.prep, item.opId) # {} => item.curState >= DEL
             /\ item.endState
                  = (IF DeletesOf(pt.ctx, ol, 0..(lv - 1), item.opId) # {}
                     THEN DEL ELSE INS)))

\* An element deleted by two concurrent deletes, LV 1 and LV 2, and an op
\* LV 3 after both.  When the second delete is applied the first has been
\* retreated (curState 1, endState Deleted); after it curState is 2; at
\* apply1(3) both deletes are in the prepare version and curState is 3.
C34_Witness ==
  Let(oplog[1], LAMBDA ol :
    /\ nextLV(ol.cg) = 4
    /\ At(ol.ops, 1).type = "del" /\ At(ol.ops, 2).type = "del"
    /\ ParentLVs(ol.cg, 1) = {0} /\ ParentLVs(ol.cg, 2) = {0}
    /\ ParentLVs(ol.cg, 3) = {1, 2}
    /\ CtxAtApply(ol, 2).items[1].curState = INS
    /\ CtxAtApply(ol, 2).items[1].endState = DEL
    /\ CtxBefore(ol, 3).items[1].curState = DEL
    /\ CtxAtApply(ol, 3).items[1].curState = 3
    /\ CtxAtApply(ol, 3).delTargets = <<-1, 0, 0, -1>>)

\* ----- C35 ----------------------------------------------------------------------
\* The item op acts on in ctx: the item of the insert, or the target of the
\* delete by ctx.delTargets; <<>> when there is none.
ItemOfOp(ctx, ol, op) ==
  Let(findItemIdx(ctx.items, opTargetLV(ctx, ol, op)), LAMBDA i :
    IF i < 0 THEN <<>> ELSE <<At(ctx.items, i)>>)

\* The preconditions of retreat1 and advance1.
CanRetreat(ctx, ol, op) ==
  /\ ItemOfOp(ctx, ol, op) # <<>>
  /\ IF At(ol.ops, op).type = "del" THEN ItemOfOp(ctx, ol, op)[1].curState >= DEL
     ELSE ItemOfOp(ctx, ol, op)[1].curState = INS

CanAdvance(ctx, ol, op) ==
  /\ ItemOfOp(ctx, ol, op) # <<>>
  /\ IF At(ol.ops, op).type = "del" THEN ItemOfOp(ctx, ol, op)[1].curState >= INS
     ELSE ItemOfOp(ctx, ol, op)[1].curState = NYI

\* r differs from ctx in the curState of items only.
OnlyCurStateChanged(ctx, r) ==
  /\ ~r.err
  /\ Len(r.items) = Len(ctx.items)
  /\ \A k \in 1..Len(ctx.items) : [r.items[k] EXCEPT !.curState = 0]
                                     = [ctx.items[k] EXCEPT !.curState = 0]
  /\ r.delTargets = ctx.delTargets /\ r.snapshot = ctx.snapshot
  /\ r.curVersion = ctx.curVersion

\* C35: at every point of a replay and for every op of the oplog, retreat1
\* succeeds exactly when its precondition holds (the item of an insert is
\* Inserted, the target of a delete is currently deleted) and advance1
\* exactly when its own holds (the item of an insert is NotYetInserted, the
\* target of a delete is inserted); a failure leaves the state as it was; a
\* success changes the curState of items only, and advance1 after retreat1,
\* or retreat1 after advance1, of the same op gives the state back.
C35_RetreatAdvanceInverse ==
  Let(oplog[1], LAMBDA ol :
    \A lv \in 0..nextLV(ol.cg) : \A pt \in ReplayPoints(ol, lv) :
      \A op \in 0..(nextLV(ol.cg) - 1) :
        Let(retreat1(pt.ctx, ol, op), LAMBDA r :
        Let(advance1(pt.ctx, ol, op), LAMBDA a :
          /\ ~pt.ctx.err
          /\ r.err = ~CanRetreat(pt.ctx, ol, op)
          /\ a.err = ~CanAdvance(pt.ctx, ol, op)
          /\ r.err => r = [pt.ctx EXCEPT !.err = TRUE]
          /\ a.err => a = [pt.ctx EXCEPT !.err = TRUE]
          /\ ~r.err => /\ OnlyCurStateChanged(pt.ctx, r)
                       /\ r # pt.ctx
                       /\ advance1(r, ol, op) = pt.ctx
          /\ ~a.err => /\ OnlyCurStateChanged(pt.ctx, a)
                       /\ a # pt.ctx
                       /\ retreat1(a, ol, op) = pt.ctx)))

\* At the end of the replay of an insert (LV 0), a delete of its element
\* (LV 1) and a concurrent insert (LV 2), LV 1 is retreated: the element
\* is Inserted.  retreat1 of LV 2 and of LV 0 succeed and advance1 restores
\* the state; retreat1 of the delete LV 1 fails (its target is not deleted),
\* advance1 of LV 1 succeeds and advance1 of the insert LV 0 fails.
C35_Witness ==
  Let(oplog[1], LAMBDA ol :
    /\ nextLV(ol.cg) = 3
    /\ At(ol.ops, 1).type = "del" /\ At(ol.ops, 2).type = "ins"
    /\ ParentLVs(ol.cg, 2) = {0}
    /\ Let(CtxBefore(ol, 3), LAMBDA ctx :
         /\ ~ctx.err
         /\ ~retreat1(ctx, ol, 2).err /\ ~retreat1(ctx, ol, 0).err
         /\ advance1(retreat1(ctx, ol, 0), ol, 0) = ctx
         /\ retreat1(ctx, ol, 1).err
         /\ ~advance1(ctx, ol, 1).err
         /\ retreat1(advance1(ctx, ol, 1), ol, 1) = ctx
         /\ retreat1(advance1(ctx, ol, 1), ol, 0).err
         /\ advance1(ctx, ol, 0).err))

\* ----- order-statistic tree -----------------------------------------------------
\* An OSTNode is [item, left, right, parent, height, size, curInsCount,
\* endInsCount].  The nodes live in a heap, a sequence indexed by node id;
\* left, right and parent are node ids or Null.  An OrderStatisticTree is
\* [root, nodes]; _nodeMap maps an item to the node that holds it.  An item
\* is one object shared by the tree and its user: a change of its curState
\* or endState is a change of nodes[n].item.
Null == 0

createNode(item) ==
  [item |-> item, left |-> Null, right |-> Null, parent |-> Null,
   height |-> 1, size |-> 1,
   curInsCount |-> IF item.curState = INS THEN 1 ELSE 0,
   endInsCount |-> IF item.endState = INS THEN 1 ELSE 0]

height(h, node) == IF node = Null THEN 0 ELSE h[node].height

size(h, node) == IF node = Null THEN 0 ELSE h[node].size

curIns(h, node) == IF node = Null THEN 0 ELSE h[node].curInsCount

endIns(h, node) == IF node = Null THEN 0 ELSE h[node].endInsCount

\* update that leaves curInsCount as it was.
updateKeepCurIns(h, node) ==
  Let(h[node], LAMBDA n :
    [h EXCEPT ![node] =
       [n EXCEPT !.height = 1 + max2(height(h, n.left), height(h, n.right)),
                 !.size = 1 + size(h, n.left) + size(h, n.right),
                 !.endInsCount = (IF n.item.endState = INS THEN 1 ELSE 0)
                                   + endIns(h, n.left) + endIns(h, n.right)]])

update(h, node) ==
  Let(h[node], LAMBDA n :
    [h EXCEPT ![node] =
       [n EXCEPT !.height = 1 + max2(height(h, n.left), height(h, n.right)),
                 !.size = 1 + size(h, n.left) + size(h, n.right),
                 !.curInsCount = (IF n.item.curState = INS THEN 1 ELSE 0)
                                   + curIns(h, n.left) + curIns(h, n.right),
                 !.endInsCount = (IF n.item.endState = INS THEN 1 ELSE 0)
                                   + endIns(h, n.left) + endIns(h, n.right)]])

setParent(h, node) ==
  Let(IF h[node].left # Null THEN [h EXCEPT ![h[node].left].parent = node] ELSE h,
      LAMBDA h1 :
        IF h1[node].right # Null THEN [h1 EXCEPT ![h1[node].right].parent = node]
        ELSE h1)

balanceFactor(h, node) == height(h, h[node].left) - height(h, h[node].right)

\* rotateRight and rotateLeft return [h, node]: the heap and the new root of
\* the subtree.
rotateRight(h, node) ==
  Let(h[node].left, LAMBDA left :
  Let([h EXCEPT ![node].left = h[left].right], LAMBDA h1 :
  Let([h1 EXCEPT ![left].right = node], LAMBDA h2 :
  Let(setParent(update(setParent(update(h2, node), node), left), left), LAMBDA h3 :
  Let([h3 EXCEPT ![left].parent = h3[node].parent], LAMBDA h4 :
    [h |-> [h4 EXCEPT ![node].parent = left], node |-> left])))))

rotateLeft(h, node) ==
  Let(h[node].right, LAMBDA right :
  Let([h EXCEPT ![node].right = h[right].left], LAMBDA h1 :
  Let([h1 EXCEPT ![right].left = node], LAMBDA h2 :
  Let(setParent(update(setParent(update(h2, node), node), right), right), LAMBDA h3 :
  Let([h3 EXCEPT ![right].parent = h3[node].parent], LAMBDA h4 :
    [h |-> [h4 EXCEPT ![node].parent = right], node |-> right])))))

balance(h, node) ==
  Let(update(h, node), LAMBDA h1 :
  Let(balanceFactor(h1, node), LAMBDA bf :
    IF bf > 1
    THEN Let(IF balanceFactor(h1, h1[node].left) < 0
             THEN Let(rotateLeft(h1, h1[node].left), LAMBDA r :
                    [[r.h EXCEPT ![node].left = r.node]
                       EXCEPT ![r.node].parent = node])
             ELSE h1,
             LAMBDA h2 : rotateRight(h2, node))
    ELSE IF bf < -1
    THEN Let(IF balanceFactor(h1, h1[node].right) > 0
             THEN Let(rotateRight(h1, h1[node].right), LAMBDA r :
                    [[r.h EXCEPT ![node].right = r.node]
                       EXCEPT ![r.node].parent = node])
             ELSE h1,
             LAMBDA h2 : rotateLeft(h2, node))
    ELSE [h |-> h1, node |-> node]))

\* insertAtNode that goes right when idx is the size of the left subtree.
RECURSIVE insertAtNodeRight(_, _, _, _)
insertAtNodeRight(h, root, idx, newNode) ==
  IF root = Null THEN [h |-> h, node |-> newNode]
  ELSE Let(size(h, h[root].left), LAMBDA leftSize :
    IF idx < leftSize
    THEN Let(insertAtNodeRight(h, h[root].left, idx, newNode), LAMBDA r :
           balance([[r.h EXCEPT ![root].left = r.node]
                      EXCEPT ![r.node].parent = root], root))
    ELSE Let(insertAtNodeRight(h, h[root].right, idx - leftSize - 1, newNode), LAMBDA r :
           balance([[r.h EXCEPT ![root].right = r.node]
                      EXCEPT ![r.node].parent = root], root)))

\* insertAtNode returns [h, node]: the heap and the root of the subtree.
RECURSIVE insertAtNode(_, _, _, _)
insertAtNode(h, root, idx, newNode) ==
  IF root = Null THEN [h |-> h, node |-> newNode]
  ELSE Let(size(h, h[root].left), LAMBDA leftSize :
    IF idx <= leftSize
    THEN Let(insertAtNode(h, h[root].left, idx, newNode), LAMBDA r :
           balance([[r.h EXCEPT ![root].left = r.node]
                      EXCEPT ![r.node].parent = root], root))
    ELSE Let(insertAtNode(h, h[root].right, idx - leftSize - 1, newNode), LAMBDA r :
           balance([[r.h EXCEPT ![root].right = r.node]
                      EXCEPT ![r.node].parent = root], root)))

RECURSIVE getByIndexNode(_, _, _)
getByIndexNode(h, root, idx) ==
  IF root = Null THEN Null
  ELSE Let(size(h, h[root].left), LAMBDA leftSize :
    IF idx < leftSize THEN getByIndexNode(h, h[root].left, idx)
    ELSE IF idx = leftSize THEN root
    ELSE getByIndexNode(h, h[root].right, idx - leftSize - 1))

\* The loop of nodeToIndex.
RECURSIVE nodeToIndexLoop(_, _, _)
nodeToIndexLoop(h, current, idx) ==
  IF h[current].parent = Null THEN idx
  ELSE Let(h[current].parent, LAMBDA p :
         nodeToIndexLoop(h, p, IF current = h[p].right
                               THEN idx + size(h, h[p].left) + 1 ELSE idx))

nodeToIndex(h, node) == nodeToIndexLoop(h, node, size(h, h[node].left))

\* ostFindLoop that stays in the right subtree when the target is the last
\* Inserted item of the left one.
RECURSIVE ostFindLoopLate(_, _, _, _, _)
ostFindLoopLate(h, node, idx, endPos, remaining) ==
  IF node = Null THEN [idx |-> idx, endPos |-> endPos]
  ELSE IF remaining < curIns(h, h[node].left)
  THEN ostFindLoopLate(h, h[node].left, idx, endPos, remaining)
  ELSE Let(remaining - curIns(h, h[node].left)
             - (IF h[node].item.curState = INS THEN 1 ELSE 0), LAMBDA rem :
       Let(endPos + endIns(h, h[node].left)
             + (IF h[node].item.endState = INS THEN 1 ELSE 0), LAMBDA end :
       Let(idx + size(h, h[node].left) + 1, LAMBDA i :
         IF rem <= 0 THEN [idx |-> i, endPos |-> end]
         ELSE ostFindLoopLate(h, h[node].right, i, end, rem))))

\* The loop of findByCurPosNode over the tree.
RECURSIVE ostFindLoop(_, _, _, _, _)
ostFindLoop(h, node, idx, endPos, remaining) ==
  IF node = Null THEN [idx |-> idx, endPos |-> endPos]
  ELSE IF remaining <= curIns(h, h[node].left)
  THEN ostFindLoop(h, h[node].left, idx, endPos, remaining)
  ELSE Let(remaining - curIns(h, h[node].left)
             - (IF h[node].item.curState = INS THEN 1 ELSE 0), LAMBDA rem :
       Let(endPos + endIns(h, h[node].left)
             + (IF h[node].item.endState = INS THEN 1 ELSE 0), LAMBDA end :
       Let(idx + size(h, h[node].left) + 1, LAMBDA i :
         IF rem <= 0 THEN [idx |-> i, endPos |-> end]
         ELSE ostFindLoop(h, h[node].right, i, end, rem))))

\* findByCurPosNode of order-statistic-tree.ts, on the nodes.
ostFindByCurPosNode(h, root, targetPos) ==
  IF targetPos = 0 THEN [idx |-> 0, endPos |-> 0]
  ELSE ostFindLoop(h, root, 0, 0, targetPos)

\* The scan of findByCurPosWithHint from the hint, by getByIndexNode.
RECURSIVE ostHintScan(_, _, _, _, _, _)
ostHintScan(h, root, idx, curPos, endPos, targetPos) ==
  IF curPos >= targetPos THEN [idx |-> idx, endPos |-> endPos]
  ELSE Let(getByIndexNode(h, root, idx), LAMBDA n :
    IF n = Null THEN [idx |-> idx, endPos |-> endPos]
    ELSE ostHintScan(h, root, idx + 1,
                     IF h[n].item.curState = INS THEN curPos + 1 ELSE curPos,
                     IF h[n].item.endState = INS THEN endPos + 1 ELSE endPos,
                     targetPos))

\* findByCurPosWithHint of order-statistic-tree.ts, on the nodes.
ostFindByCurPosWithHint(h, root, targetPos, hint) ==
  IF hint # NoHint /\ targetPos >= hint.pos /\ targetPos - hint.pos <= HintMaxDelta
  THEN ostHintScan(h, root, hint.idx, hint.pos, hint.endPos, targetPos)
  ELSE ostFindByCurPosNode(h, root, targetPos)

RECURSIVE toArrayNodes(_, _)
toArrayNodes(h, root) ==
  IF root = Null THEN <<>>
  ELSE toArrayNodes(h, h[root].left) \o <<h[root].item>>
         \o toArrayNodes(h, h[root].right)

\* The methods of OrderStatisticTree.
createTree == [root |-> Null, nodes |-> <<>>]

insertAt(tree, idx, item) ==
  Let(Len(tree.nodes) + 1, LAMBDA newNode :
  Let(insertAtNode(Append(tree.nodes, createNode(item)), tree.root, idx, newNode),
      LAMBDA r : [root |-> r.node, nodes |-> [r.h EXCEPT ![r.node].parent = Null]]))

getByIndex(tree, idx) ==
  Let(getByIndexNode(tree.nodes, tree.root, idx), LAMBDA n :
    IF n = Null THEN <<>> ELSE <<tree.nodes[n].item>>)

\* _nodeMap.get(item): the node of the item of opId, Null when it has none.
nodeOfItem(tree, opId) ==
  IF \E n \in 1..Len(tree.nodes) : tree.nodes[n].item.opId = opId
  THEN CHOOSE n \in 1..Len(tree.nodes) : tree.nodes[n].item.opId = opId
  ELSE Null

indexOfItem(tree, opId) ==
  IF nodeOfItem(tree, opId) = Null THEN -1
  ELSE nodeToIndex(tree.nodes, nodeOfItem(tree, opId))

RECURSIVE refreshLoop(_, _)
refreshLoop(h, current) ==
  IF current = Null THEN h
  ELSE refreshLoop(update(h, current), h[current].parent)

refreshCountsForItem(tree, opId) ==
  IF nodeOfItem(tree, opId) = Null THEN tree
  ELSE [tree EXCEPT !.nodes = refreshLoop(@, nodeOfItem(tree, opId))]

\* ----- the tree beside an array ---------------------------------------------------
\* The states an item is given: (curState, endState).
ItemStates == {<<NYI, INS>>, <<INS, INS>>, <<INS, DEL>>, <<DEL, DEL>>}

\* branch holds the tree with the array that receives the same items by
\* splice (the items array of the array-based edit context).
InitTree ==
  /\ oplog = [p \in Peers |-> createOpLog]
  /\ branch = [tree |-> createTree, array |-> <<>>]
  /\ pc = [p \in Peers |-> "tree"]

\* tree.insertAt(idx, item) with a new item, and array.splice(idx, 0, item).
InsertAt(idx, st) ==
  /\ Len(branch.array) < MaxTreeItems
  /\ idx <= Len(branch.array)
  /\ \E item \in {[opId |-> Len(branch.array), curState |-> st[1], endState |-> st[2],
                   originLeft |-> -1, rightParent |-> -1]} :
       branch' = [tree |-> insertAt(branch.tree, idx, item),
                  array |-> SpliceIn(branch.array, idx, item)]
  /\ UNCHANGED <<oplog, pc>>

\* The item of opId gets a new state and the tree is told so:
\* item.curState = ...; item.endState = ...; tree.refreshCountsForItem(item),
\* as apply1, advance1 and retreat1 do.
SetItemState(opId, st) ==
  /\ opId < Len(branch.array)
  /\ \E n \in {nodeOfItem(branch.tree, opId)}, k \in 1..Len(branch.array) :
       /\ branch.array[k].opId = opId
       /\ <<branch.array[k].curState, branch.array[k].endState>> # st
       /\ branch' =
            [tree |-> refreshCountsForItem(
                        [branch.tree EXCEPT !.nodes[n].item.curState = st[1],
                                            !.nodes[n].item.endState = st[2]], opId),
             array |-> [branch.array EXCEPT ![k].curState = st[1],
                                            ![k].endState = st[2]]]
  /\ UNCHANGED <<oplog, pc>>

NextTree ==
  \/ \E idx \in 0..MaxTreeItems, st \in ItemStates : InsertAt(idx, st)
  \/ \E opId \in 0..(MaxTreeItems - 1), st \in ItemStates : SetItemState(opId, st)

SpecTree == InitTree /\ [][NextTree]_vars

\* ----- C36 ----------------------------------------------------------------------
\* findByCurPos of the array-based edit context: the linear scan from index
\* 0, [idx, endPos, err]; err when the array ends before curPos = targetPos.
RECURSIVE findByCurPosArray(_, _, _, _, _)
findByCurPosArray(items, i, curPos, endPos, targetPos) ==
  IF curPos >= targetPos THEN [idx |-> i, endPos |-> endPos, err |-> FALSE]
  ELSE IF i >= Len(items) THEN [idx |-> i, endPos |-> endPos, err |-> TRUE]
  ELSE findByCurPosArray(items, i + 1,
         curPos + (IF At(items, i).curState = INS THEN 1 ELSE 0),
         endPos + (IF At(items, i).endState = INS THEN 1 ELSE 0), targetPos)

\* The number of items whose curState is Inserted.
RECURSIVE CurInserted(_)
CurInserted(items) ==
  IF items = <<>> THEN 0
  ELSE (IF Head(items).curState = INS THEN 1 ELSE 0) + CurInserted(Tail(items))

\* C36: for every tree built by insertAt and refreshed after each change of
\* an item's state, and every targetPos from 0 to the number of items whose
\* curState is Inserted, findByCurPos without hint returns the (idx, endPos)
\* of the linear scan over the array of the same items, which does not run
\* off the end; targetPos 0 gives (0, 0); and for every targetPos, past that
\* number too, it returns what the scan over the sequence of items returns
\* that stops at the end.
C36_FindByCurPosIsLinearScan ==
  /\ \A targetPos \in 0..CurInserted(branch.array) :
       Let(ostFindByCurPosWithHint(branch.tree.nodes, branch.tree.root, targetPos, NoHint),
           LAMBDA c :
         Let(findByCurPosArray(branch.array, 0, 0, 0, targetPos), LAMBDA a :
           /\ ~a.err
           /\ c = [idx |-> a.idx, endPos |-> a.endPos]
           /\ targetPos = 0 => c = [idx |-> 0, endPos |-> 0]))
  /\ \A targetPos \in 0..(MaxTreeItems + 1) :
       ostFindByCurPosNode(branch.tree.nodes, branch.tree.root, targetPos)
         = findByCurPosNode(branch.array, targetPos)

\* A tree of five items rotated at its root, whose items are, in order,
\* deleted, not yet inserted, Inserted, retreated delete, Inserted: the
\* second Inserted position is found at index 5 with endPos 3, through the
\* right subtree.
C36_Witness ==
  /\ Len(branch.array) = 5
  /\ branch.tree.root # 1
  /\ [k \in 1..5 |-> <<branch.array[k].curState, branch.array[k].endState>>]
       = << <<DEL, DEL>>, <<NYI, INS>>, <<INS, INS>>, <<INS, DEL>>, <<INS, INS>> >>
  /\ ostFindByCurPosNode(branch.tree.nodes, branch.tree.root, 3)
       = [idx |-> 5, endPos |-> 3]
  /\ ostFindByCurPosNode(branch.tree.nodes, branch.tree.root, 1)
       = [idx |-> 3, endPos |-> 2]

\* ----- C38 ----------------------------------------------------------------------
\* The nodes of the subtree of a node, and its height computed from the
\* child pointers.
RECURSIVE SubtreeNodes(_, _)
SubtreeNodes(h, node) ==
  IF node = Null THEN {}
  ELSE {node} \cup SubtreeNodes(h, h[node].left) \cup SubtreeNodes(h, h[node].right)

RECURSIVE TreeHeight(_, _)
TreeHeight(h, node) ==
  IF node = Null THEN 0
  ELSE 1 + max2(TreeHeight(h, h[node].left), TreeHeight(h, h[node].right))

\* C38: after every insertAt and after every refreshCountsForItem that
\* follows a change of an item's state, every node of the tree has
\* size = 1 + size(left) + size(right), curInsCount = [curState = Inserted]
\* + curInsCount(left) + curInsCount(right), likewise endInsCount, its
\* height field is the height of its subtree, and the heights of its two
\* subtrees differ by at most 1; every node created is in the tree.
C38_TreeMetadata ==
  Let(branch.tree.nodes, LAMBDA h :
    /\ SubtreeNodes(h, branch.tree.root) = 1..Len(h)
    /\ \A n \in 1..Len(h) :
         /\ h[n].size = 1 + size(h, h[n].left) + size(h, h[n].right)
         /\ h[n].size = Cardinality(SubtreeNodes(h, n))
         /\ h[n].curInsCount = (IF h[n].item.curState = INS THEN 1 ELSE 0)
                                 + curIns(h, h[n].left) + curIns(h, h[n].right)
         /\ h[n].curInsCount
              = Cardinality({m \in SubtreeNodes(h, n) : h[m].item.curState = INS})
         /\ h[n].endInsCount = (IF h[n].item.endState = INS THEN 1 ELSE 0)
                                 + endIns(h, h[n].left) + endIns(h, h[n].right)
         /\ h[n].endInsCount
              = Cardinality({m \in SubtreeNodes(h, n) : h[m].item.endState = INS})
         /\ h[n].height = TreeHeight(h, n)
         /\ TreeHeight(h, h[n].left) - TreeHeight(h, h[n].right) \in {-1, 0, 1})

\* A tree of five nodes of height 3 whose root is not the first node
\* inserted (it has been rotated), with two items Inserted in curState and
\* three in endState, one of them in the subtree of a child of the root.
C38_Witness ==
  Let(branch.tree.nodes, LAMBDA h :
    /\ Len(h) = 5
    /\ branch.tree.root # 1
    /\ h[branch.tree.root].height = 3
    /\ h[branch.tree.root].curInsCount = 2
    /\ h[branch.tree.root].endInsCount = 3
    /\ \E n \in 1..5 : h[n].parent # Null /\ h[n].size = 3 /\ h[n].curInsCount = 1
                        /\ h[n].item.curState # INS)

\* ----- C39 ----------------------------------------------------------------------
\* C39: after any sequence of insertAt(idx, item) with 0 <= idx <= length
\* (and changes of item states), toArray and getByIndex give the items in
\* the order of the array built by the same splices, the parent of every
\* child is the node that has it as a child, the parent of every node but
\* the root is a node that has it as a child, the parent of the root is
\* null, and indexOfItem(getByIndex(i)) = i for every i below the length.
C39_TreeIsArray ==
  Let(branch.tree.nodes, LAMBDA h :
    /\ toArrayNodes(h, branch.tree.root) = branch.array
    /\ size(h, branch.tree.root) = Len(branch.array)
    /\ \A n \in 1..Len(h) :
         /\ h[n].left # Null => h[h[n].left].parent = n
         /\ h[n].right # Null => h[h[n].right].parent = n
         /\ IF n = branch.tree.root THEN h[n].parent = Null
            ELSE /\ h[n].parent # Null
                 /\ n \in {h[h[n].parent].left, h[h[n].parent].right}
    /\ \A i \in 0..(Len(branch.array) - 1) :
         /\ getByIndex(branch.tree, i) = <<At(branch.array, i)>>
         /\ indexOfItem(branch.tree, At(branch.array, i).opId) = i
    /\ getByIndex(branch.tree, Len(branch.array)) = <<>>)

\* Five items inserted at the end, at the front and then in the middle: the
\* array is not in insertion order, the subtree of the second node has been
\* rotated (the fourth node has taken its place under the root) and the
\* second node is now a right child two levels down, whose index 4 is
\* found through its parents.
C39_Witness ==
  Let(branch.tree.nodes, LAMBDA h :
    /\ Len(h) = 5
    /\ [k \in 1..5 |-> branch.array[k].opId] = <<2, 0, 4, 3, 1>>
    /\ branch.tree.root = 1
    /\ h[1].right = 4 /\ h[4].right = 2 /\ h[4].left = 5
    /\ h[2].parent = 4 /\ h[4].parent = 1
    /\ nodeToIndex(h, 2) = 4
    /\ size(h, h[2].left) = 0)

\* ----- C37 ----------------------------------------------------------------------
\* apply1 of the array-based edit context: findByCurPos is the linear scan
\* from index 0, which throws when the array ends first, and there is no
\* cursor hint.
apply1Array(ctx, ol, opId) ==
  IF ctx.err THEN ctx
  ELSE IF ~InRange(ol.ops, opId) THEN [ctx EXCEPT !.err = TRUE]
  ELSE IF findByCurPosArray(ctx.items, 0, 0, 0, At(ol.ops, opId).pos).err
  THEN [ctx EXCEPT !.err = TRUE]
  ELSE [apply1([ctx EXCEPT !.hint = NoHint], ol, opId) EXCEPT !.hint = NoHint]

\* traverseAndApply of the array-based edit context, LV by LV: inside an
\* entry the diff between [lv - 1] and the parents of lv is empty.
RECURSIVE traverseAndApplyArray(_, _, _, _)
traverseAndApplyArray(ctx, ol, lv, toOp) ==
  IF ctx.err \/ lv >= toOp THEN ctx
  ELSE Let(apply1Array(
             [prepareVersion(ctx, ol, AsFrontier(ParentLVs(ol.cg, lv)))
                EXCEPT !.hint = NoHint], ol, lv),
           LAMBDA c : traverseAndApplyArray(
                        IF c.err THEN c ELSE [c EXCEPT !.curVersion = <<lv>>],
                        ol, lv + 1, toOp))

\* The order-statistic tree of a replay state: the items went in by
\* insertAt in LV order, each at the index it has among the items of
\* smaller opId, and the counts follow the item states.
RECURSIVE TreeOf(_, _, _)
TreeOf(items, opId, tree) ==
  IF Len(tree.nodes) = Len(items) THEN tree
  ELSE IF findItemIdx(items, opId) < 0 THEN TreeOf(items, opId + 1, tree)
  ELSE TreeOf(items, opId + 1,
              insertAt(tree,
                       Cardinality({k \in 1..findItemIdx(items, opId) :
                                      items[k].opId < opId}),
                       At(items, findItemIdx(items, opId))))

\* C37: for every oplog the replay with the order-statistic tree and the
\* cursor hint and the replay of the array-based edit context, which scans
\* from index 0 and has no hint, both succeed and leave the same items,
\* delTargets and snapshot; and whenever apply1 calls findByCurPos with a
\* hint, (hint.idx, hint.endPos) is the cursor the linear scan finds for
\* hint.pos in the current item states, and the cursor found for op.pos, on
\* the tree from the hint, is the cursor of the linear scan.
C37_HintChangesNothing ==
  Let(oplog[1], LAMBDA ol :
    /\ Let(CtxBefore(ol, nextLV(ol.cg)), LAMBDA ost :
       Let(traverseAndApplyArray(createEditContext(Len(ol.ops)), ol, 0, nextLV(ol.cg)),
           LAMBDA arr :
         /\ ~ost.err /\ ~arr.err
         /\ ost.snapshot = arr.snapshot
         /\ ost.items = arr.items /\ ost.delTargets = arr.delTargets))
    /\ \A lv \in 0..(nextLV(ol.cg) - 1) :
         Let(CtxAtApply(ol, lv), LAMBDA ctx :
         Let(TreeOf(ctx.items, 0, createTree), LAMBDA tree :
           /\ toArrayNodes(tree.nodes, tree.root) = ctx.items
           /\ ctx.hint # NoHint =>
                findByCurPosArray(ctx.items, 0, 0, 0, ctx.hint.pos)
                  = [idx |-> ctx.hint.idx, endPos |-> ctx.hint.endPos, err |-> FALSE]
           /\ Let(findByCurPosArray(ctx.items, 0, 0, 0, At(ol.ops, lv).pos), LAMBDA a :
                /\ ~a.err
                /\ findByCurPos(ctx, At(ol.ops, lv).pos)
                     = [idx |-> a.idx, endPos |-> a.endPos]
                /\ ostFindByCurPosWithHint(tree.nodes, tree.root,
                                           At(ol.ops, lv).pos, ctx.hint)
                     = [idx |-> a.idx, endPos |-> a.endPos]))))

\* Three inserts in a row, each by the next LV at the end of the text, after
\* a concurrent insert that stays NotYetInserted in front: the last apply1
\* runs with the hint (pos 2, idx 3) left by the one before, past the item
\* that is not counted, and the scan from the hint returns at once.
C37_Witness ==
  Let(oplog[1], LAMBDA ol :
    /\ nextLV(ol.cg) = 4
    /\ ParentLVs(ol.cg, 1) = {} /\ ParentLVs(ol.cg, 2) = {1}
    /\ ParentLVs(ol.cg, 3) = {2}
    /\ \A lv \in 0..3 : At(ol.ops, lv).type = "ins"
    /\ At(ol.ops, 3).pos = 2
    /\ Let(CtxAtApply(ol, 3), LAMBDA ctx :
         /\ ctx.hint = [pos |-> 2, idx |-> 3, endPos |-> 3]
         /\ ctx.items[1].curState = NYI
         /\ findByCurPos(ctx, 2) = [idx |-> 3, endPos |-> 3]))

\* ----- C40 ----------------------------------------------------------------------
\* C40: an insert of nothing is a no-op: localInsert with no content
\* element, docInsert with no item and textDocInsert with the empty string
\* leave the oplog as it was (no causal-graph entry added, ops,
\* agentToVersion and heads unchanged), and every element of cg.heads is an
\* LV of [0, nextLV).
C40_EmptyInsertIsNoOp ==
  \A a \in Agents :
    Let(oplog[1], LAMBDA ol :
    Let(checkout(ol), LAMBDA b :
      ~b.err =>
        \A pos \in 0..Len(b.snapshot) :
          /\ localInsert(ol, a, pos, <<>>) = ol
          /\ docInsert([oplog |-> ol, branch |-> b], a, pos, <<>>).oplog = ol
          /\ textDocInsert([oplog |-> ol, text |-> b.snapshot, version |-> b.version,
                            err |-> FALSE], a, pos, <<>>).oplog = ol
          /\ \A i \in 1..Len(localInsert(ol, a, pos, <<>>).cg.heads) :
               /\ localInsert(ol, a, pos, <<>>).cg.heads[i] >= 0
               /\ localInsert(ol, a, pos, <<>>).cg.heads[i]
                    < nextLV(localInsert(ol, a, pos, <<>>).cg)))

====
